---- MODULE Spec2Model ----
(***************************************************************************)
(* Model of the finance calculation engine of FinanceCalculator and of the  *)
(* stores and the storage service around it:                                *)
(*   - mortgage-calculations.ts (calculateMonthlyPayment,                  *)
(*     calculateTotalInterest, generateAmortizationSchedule, calculatePMI,  *)
(*     calculateMonthlyPropertyTax, calculateMonthlyInsurance,              *)
(*     calculateMortgage),                                                  *)
(*   - credit-calculations.ts (calculateMonthlyInterest,                   *)
(*     calculatePayoffTime, generatePaymentSchedule,                        *)
(*     calculateInterestSavings, calculateDebtAvalanche,                    *)
(*     calculateDebtSnowball, calculateOptimalPaymentDistribution,          *)
(*     calculateCreditUtilization) and calculateAffordableHousePrice,       *)
(*   - the stores: notifications of the app store, makePayment of the       *)
(*     expense store, updateInputs and calculateResults of the mortgage     *)
(*     store, the watchlist of the investment store,                        *)
(*   - StorageService over localStorage.                                    *)
(* Every group has its own variable and its own specification; the other    *)
(* variables rest at their idle records.                                    *)
(*                                                                         *)
(* Numbers.  The code computes with IEEE doubles.  The model computes with  *)
(* exact rationals [n |-> numerator, d |-> denominator] in lowest terms,    *)
(* d > 0, and d = 0 for the value Infinity.  Amounts are in dollars, as in  *)
(* the code; Math.round(x * 100) / 100 is modelled operation by operation.  *)
(* Inputs are restricted to those whose exact computation fits TLC's        *)
(* 32-bit integers (see Representable).                                     *)
(***************************************************************************)
EXTENDS Integers, Sequences, FiniteSets, TLC

VARIABLES mort, payoff, dist, sched, savings, calc,
          afford, util, notes, expense, storage, mstore, watch

\* the calls of the calculation engine
engineVars == <<mort, payoff, dist, sched, savings, calc>>

\* the affordability and utilization calls, the stores and the storage service
appVars == <<afford, util, notes, expense, storage, mstore, watch>>

vars == <<engineVars, appVars>>

(***************************************************************************)
(* Exact rational arithmetic standing for the code's number type.          *)
(***************************************************************************)
\* the largest integer TLC computes with
MaxInt == (2^30 - 1) * 2 + 1

Abs(i) == IF i < 0 THEN -i ELSE i

RECURSIVE Gcd(_, _)
Gcd(a, b) == IF b = 0 THEN a ELSE Gcd(b, a % b)

\* n/d in lowest terms, d > 0
Rat(n, d) ==
    LET g == Gcd(Abs(n), Abs(d))
        s == IF d < 0 THEN -1 ELSE 1
    IN  [n |-> s * (n \div g), d |-> s * (d \div g)]

RInt(i) == [n |-> i, d |-> 1]

Zero == RInt(0)

Infinity == [n |-> 1, d |-> 0]

IsFinite(x) == x.d # 0

\* x * y, cancelling across before multiplying
RMul(x, y) ==
    LET g1 == Gcd(Abs(x.n), y.d)
        g2 == Gcd(Abs(y.n), x.d)
    IN  IF x.n = 0 \/ y.n = 0 THEN Zero
        ELSE [n |-> (x.n \div g1) * (y.n \div g2), d |-> (x.d \div g2) * (y.d \div g1)]

\* x / y, y # 0
RDiv(x, y) ==
    RMul(x, IF y.n < 0 THEN [n |-> -y.d, d |-> -y.n] ELSE [n |-> y.d, d |-> y.n])

RAdd(x, y) ==
    LET g == Gcd(x.d, y.d)
    IN  Rat(x.n * (y.d \div g) + y.n * (x.d \div g), (x.d \div g) * y.d)

RNeg(x) == [n |-> -x.n, d |-> x.d]

RSub(x, y) == RAdd(x, RNeg(y))

\* x < y
RLess(x, y) ==
    LET g == Gcd(x.d, y.d)
    IN  x.n * (y.d \div g) < y.n * (x.d \div g)

\* x <= y
RLeq(x, y) == ~RLess(y, x)

RMin(x, y) == IF RLess(y, x) THEN y ELSE x

RAbs(x) == [n |-> Abs(x.n), d |-> x.d]

RECURSIVE RPow(_, _)
RPow(x, k) == IF k = 0 THEN RInt(1) ELSE RMul(x, RPow(x, k - 1))

\* Math.round: the nearest integer, a tie going up (floor(x + 1/2))
MathRound(x) ==
    LET q == x.n \div x.d
        r == x.n - q * x.d
    IN  IF r >= x.d - r THEN q + 1 ELSE q

\* Math.round(x * 100) / 100
Round2(x) == RDiv(RInt(MathRound(RMul(x, RInt(100)))), RInt(100))

\* Math.floor(x * 100) / 100
Floor2(x) ==
    LET y == RMul(x, RInt(100))
    IN  RDiv(RInt(y.n \div y.d), RInt(100))

\* c cents as an amount in dollars
Cents(c) == Rat(c, 100)

(***************************************************************************)
(* Bounds of the model.  Amounts are drawn in cents (mortgage) or in       *)
(* quarter cents (credit card), rates in whole percent.                     *)
(***************************************************************************)
MaxPrincipalCents == 150

MaxTermYears == 2

\* annual rates in percent.  The monthly rates are 0, 1/3, 1/2 and 1: rates
\* whose powers (1 + r)^n stay exact within MaxInt for n = 12 or 24
MortgageRates == {0, 400, 600, 1200}

\* base^k, or cap + 1 as soon as it exceeds cap
RECURSIVE CapPow(_, _, _)
CapPow(base, k, cap) ==
    IF k = 0 THEN 1
    ELSE LET r == CapPow(base, k - 1, cap)
         IN  IF r > cap \div base THEN cap + 1 ELSE r * base

\* the exact computation of the payment and the schedule stays below MaxInt
Representable(principalCents, rate, years) ==
    LET r   == Rat(rate, 1200)
        cap == MaxInt \div (4 * principalCents)
    IN  CapPow(r.n + r.d, years * 12, cap) <= cap

(***************************************************************************)
(* mortgage-calculations.ts                                                 *)
(***************************************************************************)
\* a plausible slip: the payment truncated to cents instead of rounded
calculateMonthlyPaymentTruncated(principal, annualInterestRate, loanTermYears) ==
    IF annualInterestRate = Zero
    THEN Floor2(RDiv(principal, RInt(loanTermYears * 12)))
    ELSE LET monthlyRate      == RDiv(RDiv(annualInterestRate, RInt(100)), RInt(12))
             numberOfPayments == loanTermYears * 12
             pow              == RPow(RAdd(RInt(1), monthlyRate), numberOfPayments)
             monthlyPayment   ==
                 RDiv(RMul(principal, RMul(monthlyRate, pow)), RSub(pow, RInt(1)))
         IN  Floor2(monthlyPayment)

calculateMonthlyPayment(principal, annualInterestRate, loanTermYears) ==
    IF annualInterestRate = Zero
    THEN Round2(RDiv(principal, RInt(loanTermYears * 12)))
    ELSE LET monthlyRate      == RDiv(RDiv(annualInterestRate, RInt(100)), RInt(12))
             numberOfPayments == loanTermYears * 12
             pow              == RPow(RAdd(RInt(1), monthlyRate), numberOfPayments)
             monthlyPayment   ==
                 RDiv(RMul(principal, RMul(monthlyRate, pow)), RSub(pow, RInt(1)))
         IN  Round2(monthlyPayment)

calculateTotalInterest(monthlyPayment, loanTermYears, principal) ==
    LET totalPayments == RMul(RMul(monthlyPayment, RInt(loanTermYears)), RInt(12))
    IN  Round2(RSub(totalPayments, principal))

\* generateAmortizationSchedule(principal, annualInterestRate, loanTermYears):
\* the state before the call
MortgageCall(principalCents, rate, years) ==
    [pc                 |-> "start",
     principal          |-> Cents(principalCents),
     annualInterestRate |-> RInt(rate),
     loanTermYears      |-> years,
     monthlyRate        |-> Zero,
     numberOfPayments   |-> 0,
     monthlyPayment     |-> Zero,
     remainingBalance   |-> Zero,
     totalInterestPaid  |-> Zero,
     month              |-> 0,
     schedule           |-> <<>>]

MortgageIdle == [MortgageCall(1, 0, 1) EXCEPT !.pc = "idle"]

MortgageInputs ==
    {MortgageCall(c, rate, years) :
        <<c, rate, years>> \in
            {t \in (1 .. MaxPrincipalCents) \X MortgageRates \X (1 .. MaxTermYears) :
                Representable(t[1], t[2], t[3])}}

\* lines 331-337: the locals before the loop
AmortizationStart ==
    /\ mort.pc = "start"
    /\ mort' = [mort EXCEPT
          !.pc               = "loop",
          !.monthlyRate      = RDiv(RDiv(mort.annualInterestRate, RInt(100)), RInt(12)),
          !.numberOfPayments = mort.loanTermYears * 12,
          !.monthlyPayment   = calculateMonthlyPayment(
                                   mort.principal, mort.annualInterestRate,
                                   mort.loanTermYears),
          !.remainingBalance  = mort.principal,
          !.totalInterestPaid = Zero,
          !.month             = 1,
          !.schedule          = <<>>]
    /\ UNCHANGED <<payoff, dist, sched, savings, calc, appVars>>

\* a plausible slip: the loop also stops as soon as the balance is paid off
AmortizationLoopStopsEarly ==
    /\ mort.pc = "loop"
    /\ mort.month <= mort.numberOfPayments
    /\ LET interestPayment  == RMul(mort.remainingBalance, mort.monthlyRate)
           principalPayment == RSub(mort.monthlyPayment, interestPayment)
           balance          == RSub(mort.remainingBalance, principalPayment)
           remainingBalance == IF RLess(balance, Zero) THEN Zero ELSE balance
           totalInterestPaid == RAdd(mort.totalInterestPaid, interestPayment)
       IN  mort' = [mort EXCEPT
              !.remainingBalance  = remainingBalance,
              !.totalInterestPaid = totalInterestPaid,
              !.month             = IF remainingBalance = Zero
                                    THEN mort.numberOfPayments + 1
                                    ELSE mort.month + 1,
              !.schedule          = Append(mort.schedule,
                  [month             |-> mort.month,
                   principalPayment  |-> Round2(principalPayment),
                   interestPayment   |-> Round2(interestPayment),
                   remainingBalance  |-> Round2(remainingBalance),
                   totalInterestPaid |-> Round2(totalInterestPaid)])]
    /\ UNCHANGED <<payoff, dist, sched, savings, calc, appVars>>

\* lines 339-358: one iteration of the loop
AmortizationLoop ==
    /\ mort.pc = "loop"
    /\ mort.month <= mort.numberOfPayments
    /\ LET interestPayment  == RMul(mort.remainingBalance, mort.monthlyRate)
           principalPayment == RSub(mort.monthlyPayment, interestPayment)
           balance          == RSub(mort.remainingBalance, principalPayment)
           remainingBalance == IF RLess(balance, Zero) THEN Zero ELSE balance
           totalInterestPaid == RAdd(mort.totalInterestPaid, interestPayment)
       IN  mort' = [mort EXCEPT
              !.remainingBalance  = remainingBalance,
              !.totalInterestPaid = totalInterestPaid,
              !.month             = mort.month + 1,
              !.schedule          = Append(mort.schedule,
                  [month             |-> mort.month,
                   principalPayment  |-> Round2(principalPayment),
                   interestPayment   |-> Round2(interestPayment),
                   remainingBalance  |-> Round2(remainingBalance),
                   totalInterestPaid |-> Round2(totalInterestPaid)])]
    /\ UNCHANGED <<payoff, dist, sched, savings, calc, appVars>>

\* line 360: return schedule
AmortizationReturn ==
    /\ mort.pc = "loop"
    /\ mort.month > mort.numberOfPayments
    /\ mort' = [mort EXCEPT !.pc = "done"]
    /\ UNCHANGED <<payoff, dist, sched, savings, calc, appVars>>

(***************************************************************************)
(* mortgage-calculations.ts: calculateMortgage.  Amounts are drawn in whole *)
(* dollars, rates in whole percent.                                         *)
(***************************************************************************)
MaxLoanAmount == 10

\* annual property tax and annual insurance, in dollars
AnnualCosts == {0, 100}

\* PMI rates in percent
PMIRates == {0, 1, 5}

\* a plausible slip: the charge truncated to cents instead of rounded
calculatePMITruncated(loanAmount, pmiRate) ==
    Floor2(RDiv(RMul(loanAmount, RDiv(pmiRate, RInt(100))), RInt(12)))

calculatePMI(loanAmount, pmiRate) ==
    Round2(RDiv(RMul(loanAmount, RDiv(pmiRate, RInt(100))), RInt(12)))

calculateMonthlyPropertyTax(annualPropertyTax) ==
    Round2(RDiv(annualPropertyTax, RInt(12)))

calculateMonthlyInsurance(annualInsurance) ==
    Round2(RDiv(annualInsurance, RInt(12)))

\* a plausible slip: PMI charged at a down payment of exactly 20%
PMIAppliesAtBoundary(downPaymentPercent) == RLeq(downPaymentPercent, RInt(20))

\* line 303: downPaymentPercent < 20
PMIApplies(downPaymentPercent) == RLess(downPaymentPercent, RInt(20))

\* a plausible slip: the total without the PMI charge
TotalMonthlyPaymentWithoutPMI(monthlyPayment, monthlyTax, monthlyInsurance, monthlyPMI) ==
    RAdd(RAdd(monthlyPayment, monthlyTax), monthlyInsurance)

\* line 306
TotalMonthlyPayment(monthlyPayment, monthlyTax, monthlyInsurance, monthlyPMI) ==
    RAdd(RAdd(RAdd(monthlyPayment, monthlyTax), monthlyInsurance), monthlyPMI)

calculateMortgage(inputs) ==
    LET actualLoanAmount   == RSub(inputs.loanAmount, inputs.downPayment)
        monthlyPayment     == calculateMonthlyPayment(actualLoanAmount,
                                  inputs.interestRate, inputs.loanTermYears)
        monthlyTax         == calculateMonthlyPropertyTax(inputs.propertyTax)
        monthlyInsurance   == calculateMonthlyInsurance(inputs.homeInsurance)
        downPaymentPercent == RMul(RDiv(inputs.downPayment, inputs.loanAmount), RInt(100))
        monthlyPMI         == IF PMIApplies(downPaymentPercent)
                              THEN calculatePMI(actualLoanAmount, inputs.pmiRate)
                              ELSE Zero
        totalInterest      == calculateTotalInterest(monthlyPayment,
                                  inputs.loanTermYears, actualLoanAmount)
        totalCost          ==
            RAdd(RAdd(actualLoanAmount, totalInterest),
                 RMul(RMul(RAdd(monthlyTax, monthlyInsurance),
                           RInt(inputs.loanTermYears)), RInt(12)))
    IN  [monthlyPayment      |-> monthlyPayment,
         principal           |-> actualLoanAmount,
         interest            |-> totalInterest,
         monthlyTax          |-> monthlyTax,
         monthlyInsurance    |-> monthlyInsurance,
         monthlyPMI          |-> monthlyPMI,
         totalMonthlyPayment |-> TotalMonthlyPayment(monthlyPayment, monthlyTax,
                                                     monthlyInsurance, monthlyPMI),
         totalInterest       |-> totalInterest,
         totalCost           |-> totalCost]

\* the MortgageInputs record of a call, and no result yet
CalcCall(loanAmount, downPayment, interestRate, loanTermYears, propertyTax, homeInsurance, pmiRate) ==
    [pc     |-> "start",
     inputs |-> [loanAmount    |-> RInt(loanAmount),
                 downPayment   |-> RInt(downPayment),
                 interestRate  |-> RInt(interestRate),
                 loanTermYears |-> loanTermYears,
                 propertyTax   |-> RInt(propertyTax),
                 homeInsurance |-> RInt(homeInsurance),
                 pmiRate       |-> RInt(pmiRate)],
     result |-> [monthlyPayment |-> Zero, principal |-> Zero, interest |-> Zero,
                 monthlyTax |-> Zero, monthlyInsurance |-> Zero, monthlyPMI |-> Zero,
                 totalMonthlyPayment |-> Zero, totalInterest |-> Zero,
                 totalCost |-> Zero]]

\* the financed amount is 0, or its payment is Representable
CalcRepresentable(loanAmount, downPayment, rate, years) ==
    \/ loanAmount = downPayment
    \/ Representable((loanAmount - downPayment) * 100, rate, years)

CalcInputs ==
    {CalcCall(t[1], t[2], t[3], t[4], tax, insurance, pmiRate) :
        t \in {u \in (1 .. MaxLoanAmount) \X (0 .. MaxLoanAmount)
                     \X MortgageRates \X (1 .. MaxTermYears) :
                 u[2] <= u[1] /\ CalcRepresentable(u[1], u[2], u[3], u[4])},
        tax \in AnnualCosts,
        insurance \in AnnualCosts,
        pmiRate \in PMIRates}

\* lines 280-321: the call
CalculateMortgage ==
    /\ calc.pc = "start"
    /\ calc' = [calc EXCEPT !.pc = "done", !.result = calculateMortgage(calc.inputs)]
    /\ UNCHANGED <<mort, payoff, dist, sched, savings, appVars>>

CalcIdle == [CalcCall(1, 0, 0, 1, 0, 0, 0) EXCEPT !.pc = "idle"]

(***************************************************************************)
(* credit-calculations.ts: calculatePayoffTime                              *)
(***************************************************************************)
MaxBalanceQ == 40

MaxPaymentQ == 48

LongBalanceQ == 700

\* annual rates in percent.  The monthly rates are 0 and 1, so that the
\* balance stays a whole number of quarter cents through all 600 months
PayoffRates == {0, 1200}

\* q quarter cents as an amount in dollars
QuarterCents(q) == Rat(q, 400)

calculateMonthlyInterest(balance, annualInterestRate) ==
    LET monthlyRate == RDiv(RDiv(annualInterestRate, RInt(100)), RInt(12))
    IN  Round2(RMul(balance, monthlyRate))

\* the cap of the simulation loop, in months
MaxMonths == 600

\* a plausible slip: the cap compared with <=
PayoffLoopConditionOffByOne(currentBalance, months) ==
    RLess(Rat(1, 100), currentBalance) /\ months <= MaxMonths

\* line 49: while (currentBalance > 0.01 && months < 600)
PayoffLoopCondition(currentBalance, months) ==
    RLess(Rat(1, 100), currentBalance) /\ months < MaxMonths

\* calculatePayoffTime(balance, annualInterestRate, monthlyPayment): the state
\* before the call
PayoffCall(balanceQ, rate, paymentQ) ==
    [pc                 |-> "start",
     balance            |-> QuarterCents(balanceQ),
     annualInterestRate |-> RInt(rate),
     monthlyPayment     |-> QuarterCents(paymentQ),
     monthlyRate        |-> Zero,
     currentBalance     |-> Zero,
     months             |-> 0,
     totalInterest      |-> Zero,
     result             |-> [months |-> Zero, totalInterest |-> Zero, totalPaid |-> Zero]]

PayoffInputs ==
    {PayoffCall(b, rate, p) :
        b \in ((-1) .. MaxBalanceQ) \cup {LongBalanceQ},
        rate \in PayoffRates,
        p \in (-1) .. MaxPaymentQ}

\* lines 34-36: a payment or balance that is not positive
PayoffReturnZero ==
    /\ payoff.pc = "start"
    /\ RLeq(payoff.monthlyPayment, Zero) \/ RLeq(payoff.balance, Zero)
    /\ payoff' = [payoff EXCEPT
          !.pc     = "done",
          !.result = [months |-> Zero, totalInterest |-> Zero, totalPaid |-> Zero]]
    /\ UNCHANGED <<mort, dist, sched, savings, calc, appVars>>

\* lines 38-47: the payment does not exceed the interest of the first month
PayoffReturnUnreachable ==
    /\ payoff.pc = "start"
    /\ ~(RLeq(payoff.monthlyPayment, Zero) \/ RLeq(payoff.balance, Zero))
    /\ RLeq(payoff.monthlyPayment,
            calculateMonthlyInterest(payoff.balance, payoff.annualInterestRate))
    /\ payoff' = [payoff EXCEPT
          !.pc     = "done",
          !.result = [months |-> Infinity, totalInterest |-> Infinity,
                      totalPaid |-> Infinity]]
    /\ UNCHANGED <<mort, dist, sched, savings, calc, appVars>>

\* lines 38-47: both guards passed, the locals before the loop
PayoffEnterLoop ==
    /\ payoff.pc = "start"
    /\ ~(RLeq(payoff.monthlyPayment, Zero) \/ RLeq(payoff.balance, Zero))
    /\ ~RLeq(payoff.monthlyPayment,
             calculateMonthlyInterest(payoff.balance, payoff.annualInterestRate))
    /\ payoff' = [payoff EXCEPT
          !.pc             = "loop",
          !.monthlyRate    = RDiv(RDiv(payoff.annualInterestRate, RInt(100)), RInt(12)),
          !.currentBalance = payoff.balance,
          !.months         = 0,
          !.totalInterest  = Zero]
    /\ UNCHANGED <<mort, dist, sched, savings, calc, appVars>>

\* lines 49-58: one iteration of the loop, with its break
PayoffLoop ==
    /\ payoff.pc = "loop"
    /\ PayoffLoopCondition(payoff.currentBalance, payoff.months)
    /\ LET interestCharge   == RMul(payoff.currentBalance, payoff.monthlyRate)
           principalPayment == RMin(RSub(payoff.monthlyPayment, interestCharge),
                                    payoff.currentBalance)
       IN  payoff' = [payoff EXCEPT
              !.currentBalance = RSub(payoff.currentBalance, principalPayment),
              !.totalInterest  = RAdd(payoff.totalInterest, interestCharge),
              !.months         = payoff.months + 1,
              !.pc             = IF RLeq(principalPayment, Zero) THEN "break" ELSE "loop"]
    /\ UNCHANGED <<mort, dist, sched, savings, calc, appVars>>

\* a plausible slip: totalPaid taken as the payments made
PayoffReturnTotalOfPayments ==
    /\ \/ payoff.pc = "break"
       \/ /\ payoff.pc = "loop"
          /\ ~PayoffLoopCondition(payoff.currentBalance, payoff.months)
    /\ payoff' = [payoff EXCEPT
          !.pc     = "done",
          !.result = [months        |-> RInt(payoff.months),
                      totalInterest |-> Round2(payoff.totalInterest),
                      totalPaid     |-> Round2(RMul(RInt(payoff.months),
                                                    payoff.monthlyPayment))]]
    /\ UNCHANGED <<mort, dist, sched, savings, calc, appVars>>

\* lines 60-64: the loop has ended, the totals are rounded to cents
PayoffReturn ==
    /\ \/ payoff.pc = "break"
       \/ /\ payoff.pc = "loop"
          /\ ~PayoffLoopCondition(payoff.currentBalance, payoff.months)
    /\ payoff' = [payoff EXCEPT
          !.pc     = "done",
          !.result = [months        |-> RInt(payoff.months),
                      totalInterest |-> Round2(payoff.totalInterest),
                      totalPaid     |-> Round2(RAdd(payoff.balance, payoff.totalInterest))]]
    /\ UNCHANGED <<mort, dist, sched, savings, calc, appVars>>

PayoffIdle == [PayoffCall(0, 0, 0) EXCEPT !.pc = "idle"]

(***************************************************************************)
(* credit-calculations.ts: generatePaymentSchedule.  A date is a count of   *)
(* months; new Date() reads the clock.                                      *)
(***************************************************************************)
\* what new Date() can return
Clock == {0, 1}

\* maxMonths: 12 is the value PayoffCalculator.vue passes, 120 the default,
\* the last is beyond the cap of calculatePayoffTime
ScheduleCaps == {2, 12, 120, MaxMonths + 1}

\* generatePaymentSchedule(balance, annualInterestRate, monthlyPayment,
\* maxMonths): the state before the call.  earlier holds what the earlier
\* calls with these arguments returned
ScheduleCall(balance, annualInterestRate, monthlyPayment, maxMonths, earlier) ==
    [pc                 |-> "start",
     balance            |-> balance,
     annualInterestRate |-> annualInterestRate,
     monthlyPayment     |-> monthlyPayment,
     maxMonths          |-> maxMonths,
     monthlyRate        |-> Zero,
     currentBalance     |-> Zero,
     currentDate        |-> 0,
     month              |-> 0,
     schedule           |-> <<>>,
     earlier            |-> earlier]

ScheduleIdle == [ScheduleCall(Zero, Zero, Zero, 0, <<>>) EXCEPT !.pc = "idle"]

\* lines 76-81: the locals before the loop
ScheduleStart ==
    /\ sched.pc = "start"
    /\ \E now \in Clock :
          sched' = [sched EXCEPT
              !.pc             = "loop",
              !.schedule       = <<>>,
              !.monthlyRate    = RDiv(RDiv(sched.annualInterestRate, RInt(100)), RInt(12)),
              !.currentBalance = sched.balance,
              !.currentDate    = now,
              !.month          = 0]
    /\ UNCHANGED <<mort, payoff, dist, savings, calc, appVars>>

\* line 81: month < maxMonths && currentBalance > 0.01
ScheduleLoopCondition(currentBalance, month, maxMonths) ==
    month < maxMonths /\ RLess(Rat(1, 100), currentBalance)

\* lines 81-97: one iteration of the loop, with its break
ScheduleLoop ==
    /\ sched.pc = "loop"
    /\ ScheduleLoopCondition(sched.currentBalance, sched.month, sched.maxMonths)
    /\ LET interestCharged == RMul(sched.currentBalance, sched.monthlyRate)
           principalPaid   == RMin(RSub(sched.monthlyPayment, interestCharged),
                                   sched.currentBalance)
           currentBalance  == RSub(sched.currentBalance, principalPaid)
           currentDate     == sched.currentDate + 1
       IN  IF RLeq(principalPaid, Zero)
           THEN sched' = [sched EXCEPT !.pc = "break"]
           ELSE sched' = [sched EXCEPT
                   !.currentBalance = currentBalance,
                   !.currentDate    = currentDate,
                   !.month          = sched.month + 1,
                   !.schedule       = Append(sched.schedule,
                       [date             |-> currentDate,
                        amount           |-> sched.monthlyPayment,
                        interestCharged  |-> Round2(interestCharged),
                        principalPaid    |-> Round2(principalPaid),
                        remainingBalance |-> Round2(currentBalance)])]
    /\ UNCHANGED <<mort, payoff, dist, savings, calc, appVars>>

\* line 99: return schedule
ScheduleReturn ==
    /\ \/ sched.pc = "break"
       \/ /\ sched.pc = "loop"
          /\ ~ScheduleLoopCondition(sched.currentBalance, sched.month, sched.maxMonths)
    /\ sched' = [sched EXCEPT !.pc = "done"]
    /\ UNCHANGED <<mort, payoff, dist, savings, calc, appVars>>

\* PayoffCalculator.vue: the payment schedule is computed for the card and
\* the payment of the payoff time
CallSchedule ==
    /\ payoff.pc = "done"
    /\ sched.pc = "idle"
    /\ \E maxMonths \in ScheduleCaps :
          sched' = ScheduleCall(payoff.balance, payoff.annualInterestRate,
                                payoff.monthlyPayment, maxMonths, <<>>)
    /\ UNCHANGED <<mort, payoff, dist, savings, calc, appVars>>

\* the computed property is evaluated again with the same arguments
CallScheduleAgain ==
    /\ sched.pc = "done"
    /\ sched.earlier = <<>>
    /\ sched' = ScheduleCall(sched.balance, sched.annualInterestRate,
                             sched.monthlyPayment, sched.maxMonths,
                             <<sched.schedule>>)
    /\ UNCHANGED <<mort, payoff, dist, savings, calc, appVars>>

(***************************************************************************)
(* credit-calculations.ts: calculateInterestSavings                         *)
(***************************************************************************)
MaxSavingsBalanceQ == 12

MaxSavingsPaymentQ == 14

\* Infinity - Infinity
NaN == [n |-> 0, d |-> 0]

NegativeInfinity == [n |-> -1, d |-> 0]

\* a - b of numbers that can be Infinity
Minus(a, b) ==
    IF IsFinite(a) /\ IsFinite(b) THEN RSub(a, b)
    ELSE IF IsFinite(b) THEN a
    ELSE IF IsFinite(a) THEN NegativeInfinity
    ELSE NaN

\* calculateInterestSavings(balance, annualInterestRate, minimumPayment,
\* proposedPayment): the state before the call, the amounts in quarter cents
SavingsCall(balance, annualInterestRate, minimumPayment, proposedPayment) ==
    [pc                 |-> "start",
     balance            |-> balance,
     annualInterestRate |-> annualInterestRate,
     minimumPayment     |-> minimumPayment,
     proposedPayment    |-> proposedPayment,
     minimumScenario    |-> [months |-> Zero, totalInterest |-> Zero, totalPaid |-> Zero],
     proposedScenario   |-> [months |-> Zero, totalInterest |-> Zero, totalPaid |-> Zero],
     result             |-> [minimumPayoffTime |-> Zero, proposedPayoffTime |-> Zero,
                             interestSaved |-> Zero, timeSaved |-> Zero]]

SavingsInputs ==
    {SavingsCall(b, rate, m, p) :
        b \in 0 .. MaxSavingsBalanceQ,
        rate \in PayoffRates,
        m \in 0 .. MaxSavingsPaymentQ,
        p \in 0 .. MaxSavingsPaymentQ}

\* line 134: calculatePayoffTime is called with the minimum payment
SavingsCallMinimum ==
    /\ savings.pc = "start"
    /\ savings' = [savings EXCEPT !.pc = "minimum"]
    /\ payoff' = PayoffCall(savings.balance, savings.annualInterestRate,
                            savings.minimumPayment)
    /\ UNCHANGED <<mort, dist, sched, calc, appVars>>

\* lines 134-135: the first call has returned, calculatePayoffTime is called
\* with the proposed payment
SavingsCallProposed ==
    /\ savings.pc = "minimum"
    /\ payoff.pc = "done"
    /\ savings' = [savings EXCEPT
          !.pc              = "proposed",
          !.minimumScenario = payoff.result]
    /\ payoff' = PayoffCall(savings.balance, savings.annualInterestRate,
                            savings.proposedPayment)
    /\ UNCHANGED <<mort, dist, sched, calc, appVars>>

\* lines 135-142: the second call has returned, the differences are returned
SavingsReturn ==
    /\ savings.pc = "proposed"
    /\ payoff.pc = "done"
    /\ savings' = [savings EXCEPT
          !.pc               = "done",
          !.proposedScenario = payoff.result,
          !.result           =
              [minimumPayoffTime  |-> savings.minimumScenario.months,
               proposedPayoffTime |-> payoff.result.months,
               interestSaved      |-> Minus(savings.minimumScenario.totalInterest,
                                            payoff.result.totalInterest),
               timeSaved          |-> Minus(savings.minimumScenario.months,
                                            payoff.result.months)]]
    /\ UNCHANGED <<mort, payoff, dist, sched, calc, appVars>>

SavingsIdle == [SavingsCall(0, 0, 0, 0) EXCEPT !.pc = "idle"]

(***************************************************************************)
(* credit-calculations.ts: calculateDebtAvalanche, calculateDebtSnowball,    *)
(* calculateOptimalPaymentDistribution.  Card amounts are whole numbers.     *)
(***************************************************************************)
MaxCards == 2

MaxCardBalance == 2

MaxMinimumPayment == 1

MaxBudget == 3

\* annual rates in percent
CardRates == {10, 20}

Min(a, b) == IF b < a THEN b ELSE a

\* the compare functions handed to sort (lines 149 and 156), and the same
\* with the operands of the first exchanged
Compare(order, a, b) ==
    CASE order = "rateDescending"   -> b.interestRate - a.interestRate
      [] order = "rateAscending"    -> a.interestRate - b.interestRate
      [] order = "balanceAscending" -> a.balance - b.balance

\* a plausible slip: an insertion that is not stable (x goes before its equals)
RECURSIVE InsertSortedUnstable(_, _, _)
InsertSortedUnstable(x, sorted, order) ==
    IF sorted = <<>> THEN <<x>>
    ELSE IF Compare(order, Head(sorted), x) < 0
         THEN <<Head(sorted)>> \o InsertSortedUnstable(x, Tail(sorted), order)
         ELSE <<x>> \o sorted

\* Array.prototype.sort is stable: x goes behind every element that does not
\* compare after it (compare(e, x) <= 0)
RECURSIVE InsertSorted(_, _, _)
InsertSorted(x, sorted, order) ==
    IF sorted = <<>> THEN <<x>>
    ELSE IF Compare(order, Head(sorted), x) <= 0
         THEN <<Head(sorted)>> \o InsertSorted(x, Tail(sorted), order)
         ELSE <<x>> \o sorted

\* [...list].sort(compare)
RECURSIVE StableSort(_, _)
StableSort(list, order) ==
    IF list = <<>> THEN <<>>
    ELSE InsertSorted(list[Len(list)],
                      StableSort(SubSeq(list, 1, Len(list) - 1), order), order)

\* a plausible slip: the comparison the other way round
calculateDebtAvalancheAscending(cards) == StableSort(cards, "rateAscending")

calculateDebtAvalanche(cards) == StableSort(cards, "rateDescending")

calculateDebtSnowball(cards) == StableSort(cards, "balanceAscending")

\* a plausible slip: the minimum is not limited by the budget that is left
MinimumAllocationIgnoringBudget(card, remainingBudget) ==
    Min(card.minimumPayment, card.balance)

\* a plausible slip: the minimum is not limited by the balance
MinimumAllocationIgnoringBalance(card, remainingBudget) ==
    Min(card.minimumPayment, remainingBudget)

\* a plausible slip: a card whose minimum the budget cannot cover is skipped
MinimumAllocationAllOrNothing(card, remainingBudget) ==
    IF Min(card.minimumPayment, card.balance) <= remainingBudget
    THEN Min(card.minimumPayment, card.balance)
    ELSE 0

\* line 176: Math.min(card.minimumPayment, remainingBudget, card.balance)
MinimumAllocation(card, remainingBudget) ==
    Min(Min(card.minimumPayment, remainingBudget), card.balance)

\* a plausible slip: what the card has received already is not taken off
MaxExtraPaymentUpToBalance(remainingBudget, priorityCard, priorityPayment) ==
    Min(remainingBudget, priorityCard.balance)

\* a plausible slip: the surplus is not limited by the balance
MaxExtraPaymentIgnoringBalance(remainingBudget, priorityCard, priorityPayment) ==
    remainingBudget

\* line 186: Math.min(remainingBudget, priorityCard.balance - priorityPayment.payment)
MaxExtraPayment(remainingBudget, priorityCard, priorityPayment) ==
    Min(remainingBudget, priorityCard.balance - priorityPayment.payment)

\* payments.find(p => p.cardId === id): the index of the first match, 0 if none
FindPayment(payments, id) ==
    IF \E k \in 1 .. Len(payments) : payments[k].cardId = id
    THEN CHOOSE k \in 1 .. Len(payments) :
             /\ payments[k].cardId = id
             /\ \A j \in 1 .. k - 1 : payments[j].cardId # id
    ELSE 0

\* the minimum payments are even amounts, so that a budget can cover a part
\* of one
CardTypes ==
    [balance : 0 .. MaxCardBalance, interestRate : CardRates,
     minimumPayment : {2 * m : m \in 0 .. MaxMinimumPayment}]

\* the card lists of the store: the ids are distinct
CardLists ==
    UNION {{[k \in 1 .. len |->
                [id |-> k, balance |-> f[k].balance, interestRate |-> f[k].interestRate,
                 minimumPayment |-> f[k].minimumPayment]] :
              f \in [1 .. len -> CardTypes]} : len \in 0 .. MaxCards}

\* calculateOptimalPaymentDistribution(cards, totalPaymentBudget, strategy):
\* the state before the call
DistCall(cards, totalPaymentBudget, strategy) ==
    [pc                 |-> "start",
     cards              |-> cards,
     totalPaymentBudget |-> totalPaymentBudget,
     strategy           |-> strategy,
     sortedCards        |-> <<>>,
     payments           |-> <<>>,
     remainingBudget    |-> 0,
     next               |-> 0]

DistInputs ==
    {DistCall(cards, budget, strategy) :
        cards \in CardLists, budget \in 0 .. MaxBudget,
        strategy \in {"avalanche", "snowball"}}

\* lines 167-172: the cards in priority order, the locals before the loop
DistSort ==
    /\ dist.pc = "start"
    /\ dist' = [dist EXCEPT
          !.pc              = "minimums",
          !.sortedCards     = IF dist.strategy = "avalanche"
                              THEN calculateDebtAvalanche(dist.cards)
                              ELSE calculateDebtSnowball(dist.cards),
          !.payments        = <<>>,
          !.remainingBudget = dist.totalPaymentBudget,
          !.next            = 1]
    /\ UNCHANGED <<mort, payoff, sched, savings, calc, appVars>>

\* lines 175-179: the minimum payment of the next card
DistAllocateMinimum ==
    /\ dist.pc = "minimums"
    /\ dist.next <= Len(dist.sortedCards)
    /\ LET card       == dist.sortedCards[dist.next]
           minPayment == MinimumAllocation(card, dist.remainingBudget)
       IN  dist' = [dist EXCEPT
              !.payments        = Append(dist.payments,
                                         [cardId |-> card.id, payment |-> minPayment]),
              !.remainingBudget = dist.remainingBudget - minPayment,
              !.next            = dist.next + 1]
    /\ UNCHANGED <<mort, payoff, sched, savings, calc, appVars>>

\* lines 181-191: the budget that is left goes to the priority card
DistAllocateExtra ==
    /\ dist.pc = "minimums"
    /\ dist.next > Len(dist.sortedCards)
    /\ LET priorityCard == dist.sortedCards[1]
           k            == FindPayment(dist.payments, priorityCard.id)
       IN  dist' = [dist EXCEPT
              !.pc       = "done",
              !.payments =
                  IF dist.remainingBudget > 0 /\ Len(dist.sortedCards) > 0 /\ k # 0
                  THEN [dist.payments EXCEPT
                           ![k].payment = dist.payments[k].payment
                               + MaxExtraPayment(dist.remainingBudget, priorityCard,
                                                 dist.payments[k])]
                  ELSE dist.payments]
    /\ UNCHANGED <<mort, payoff, sched, savings, calc, appVars>>

DistIdle == [DistCall(<<>>, 0, "avalanche") EXCEPT !.pc = "idle"]

(***************************************************************************)
(* mortgage-calculations.ts: calculateAffordableHousePrice, and             *)
(* credit-calculations.ts: calculateCreditUtilization.  Amounts in dollars. *)
(***************************************************************************)
MaxMonthlyBudget == 6

MaxTaxInsurance == 2

\* downPaymentPercent
DownPaymentPercents == {0, 15, 20, 100}

\* Math.round(x * 100) / 100 of a number that can be Infinity
RoundCents(x) == IF IsFinite(x) THEN Round2(x) ELSE x

calculateAffordableHousePrice(monthlyBudget, downPaymentPercent, interestRate, loanTermYears, monthlyTaxInsurance) ==
    LET availableForPrincipalInterest == RSub(monthlyBudget, monthlyTaxInsurance)
        monthlyRate      == RDiv(RDiv(interestRate, RInt(100)), RInt(12))
        numberOfPayments == loanTermYears * 12
        financedShare    == RSub(RInt(1), RDiv(downPaymentPercent, RInt(100)))
    IN  IF RLeq(availableForPrincipalInterest, Zero) THEN Zero
        ELSE IF monthlyRate = Zero
        THEN RDiv(RMul(availableForPrincipalInterest, RInt(numberOfPayments)),
                  financedShare)
        ELSE LET pow           == RPow(RAdd(RInt(1), monthlyRate), numberOfPayments)
                 maxLoanAmount == RDiv(RMul(availableForPrincipalInterest,
                                            RSub(pow, RInt(1))),
                                       RMul(monthlyRate, pow))
                 maxHousePrice == RDiv(maxLoanAmount, financedShare)
             IN  RoundCents(maxHousePrice)

\* the state before the call
AffordCall(monthlyBudget, downPaymentPercent, interestRate, loanTermYears, monthlyTaxInsurance) ==
    [pc                  |-> "start",
     monthlyBudget       |-> RInt(monthlyBudget),
     downPaymentPercent  |-> RInt(downPaymentPercent),
     interestRate        |-> RInt(interestRate),
     loanTermYears       |-> loanTermYears,
     monthlyTaxInsurance |-> RInt(monthlyTaxInsurance),
     result              |-> Zero]

\* (1 + r)^n times the largest amount, the percentages and the cents stays
\* below MaxInt
AffordRepresentable(rate, years) ==
    LET r   == Rat(rate, 1200)
        cap == MaxInt \div (2000 * MaxMonthlyBudget)
    IN  rate = 0 \/ CapPow(r.n + r.d, years * 12, cap) <= cap

AffordInputs ==
    {AffordCall(b, pct, t[1], t[2], ti) :
        b \in 0 .. MaxMonthlyBudget,
        pct \in DownPaymentPercents,
        t \in {u \in PayoffRates \X (1 .. MaxTermYears) : AffordRepresentable(u[1], u[2])},
        ti \in 0 .. MaxTaxInsurance}

\* lines 366-396: the call
CalculateAffordableHousePrice ==
    /\ afford.pc = "start"
    /\ afford' = [afford EXCEPT
          !.pc     = "done",
          !.result = calculateAffordableHousePrice(afford.monthlyBudget,
                         afford.downPaymentPercent, afford.interestRate,
                         afford.loanTermYears, afford.monthlyTaxInsurance)]
    /\ UNCHANGED <<engineVars, util, notes, expense, storage, mstore, watch>>

AffordIdle == [AffordCall(0, 0, 0, 1, 0) EXCEPT !.pc = "idle"]

MaxUtilBalance == 3

MaxCreditLimit == 3

calculateCreditUtilization(balance, creditLimit) ==
    IF RLeq(creditLimit, Zero) THEN Zero
    ELSE Round2(RMul(RMul(RDiv(balance, creditLimit), RInt(100)), RInt(100)))

\* the state before the call
UtilCall(balance, creditLimit) ==
    [pc          |-> "start",
     balance     |-> RInt(balance),
     creditLimit |-> RInt(creditLimit),
     result      |-> Zero]

UtilInputs ==
    {UtilCall(b, l) : b \in 0 .. MaxUtilBalance, l \in (-1) .. MaxCreditLimit}

\* lines 105-108: the call
CalculateCreditUtilization ==
    /\ util.pc = "start"
    /\ util' = [util EXCEPT
          !.pc     = "done",
          !.result = calculateCreditUtilization(util.balance, util.creditLimit)]
    /\ UNCHANGED <<engineVars, afford, notes, expense, storage, mstore, watch>>

UtilIdle == [UtilCall(0, 0) EXCEPT !.pc = "idle"]

(***************************************************************************)
(* stores/app.ts: the notification list of the app store.  A notification   *)
(* is its id, its createdAt and its isRead flag; id and createdAt are the   *)
(* number of the addNotification call that made it.                         *)
(***************************************************************************)
\* line 71: the length the list is cut to
NotificationLimit == 50

\* the number of store calls in a run
MaxNoteCalls == 5

\* the list after n addNotification calls on the new store
RECURSIVE AddedNotifications(_)
AddedNotifications(n) ==
    IF n = 0 THEN <<>>
    ELSE <<[id |-> n, createdAt |-> n, isRead |-> FALSE]>> \o AddedNotifications(n - 1)

\* a plausible slip: the last 50 kept instead of the first 50
LimitNotificationsKeepsLast(list) ==
    IF Len(list) > NotificationLimit
    THEN SubSeq(list, Len(list) - NotificationLimit + 1, Len(list))
    ELSE list

\* lines 71-73: slice(0, 50)
LimitNotifications(list) ==
    IF Len(list) > NotificationLimit THEN SubSeq(list, 1, NotificationLimit) ELSE list

\* the index of the first notification with this id, or 0
FindNotification(list, id) ==
    IF \E k \in 1 .. Len(list) : list[k].id = id
    THEN CHOOSE k \in 1 .. Len(list) :
             /\ list[k].id = id
             /\ \A j \in 1 .. k - 1 : list[j].id # id
    ELSE 0

\* the store with a list that n addNotification calls have filled
NotesAfter(n) ==
    [pc |-> "ready", list |-> AddedNotifications(n), added |-> n, calls |-> 0]

\* the new store, and a store two notifications short of the limit
NotesInputs == {NotesAfter(0), NotesAfter(NotificationLimit - 2)}

\* the ids the callers pass: the newest, the second, the oldest, and one that
\* is not in the list
NotificationIds ==
    {0} \cup {notes.list[k].id : k \in {1, 2, Len(notes.list)} \cap DOMAIN notes.list}

\* lines 60-76
AddNotification ==
    /\ notes.pc = "ready"
    /\ notes.calls < MaxNoteCalls
    /\ LET newNotification == [id        |-> notes.added + 1,
                               createdAt |-> notes.added + 1,
                               isRead    |-> FALSE]
       IN  notes' = [notes EXCEPT
              !.list  = LimitNotifications(<<newNotification>> \o notes.list),
              !.added = notes.added + 1,
              !.calls = notes.calls + 1]
    /\ UNCHANGED <<engineVars, afford, util, expense, storage, mstore, watch>>

\* lines 78-83
MarkNotificationAsRead ==
    /\ notes.pc = "ready"
    /\ notes.calls < MaxNoteCalls
    /\ \E id \in NotificationIds :
          LET k == FindNotification(notes.list, id)
          IN  notes' = [notes EXCEPT
                 !.list  = IF k # 0 THEN [notes.list EXCEPT ![k].isRead = TRUE]
                           ELSE notes.list,
                 !.calls = notes.calls + 1]
    /\ UNCHANGED <<engineVars, afford, util, expense, storage, mstore, watch>>

\* lines 85-89
MarkAllNotificationsAsRead ==
    /\ notes.pc = "ready"
    /\ notes.calls < MaxNoteCalls
    /\ notes' = [notes EXCEPT
          !.list  = [k \in 1 .. Len(notes.list) |->
                        [notes.list[k] EXCEPT !.isRead = TRUE]],
          !.calls = notes.calls + 1]
    /\ UNCHANGED <<engineVars, afford, util, expense, storage, mstore, watch>>

\* lines 91-96
RemoveNotification ==
    /\ notes.pc = "ready"
    /\ notes.calls < MaxNoteCalls
    /\ \E id \in NotificationIds :
          LET index == FindNotification(notes.list, id)
          IN  notes' = [notes EXCEPT
                 !.list  = IF index # 0
                           THEN SubSeq(notes.list, 1, index - 1)
                                \o SubSeq(notes.list, index + 1, Len(notes.list))
                           ELSE notes.list,
                 !.calls = notes.calls + 1]
    /\ UNCHANGED <<engineVars, afford, util, expense, storage, mstore, watch>>

NotesIdle == [NotesAfter(0) EXCEPT !.pc = "idle"]

(***************************************************************************)
(* stores/app.ts: the credit cards of the expense store and makePayment.    *)
(* A card is its id, balance, interestRate (annual, in percent), dueDate,   *)
(* totalInterestPaid and paymentHistory; a payment record is its amount,    *)
(* interestCharged, principalPaid and remainingBalance (its date, the time  *)
(* of the call, is left out).  A date is a year, a month 1 .. 12 and a day. *)
(***************************************************************************)
\* card balances are multiples of 50 cents up to this multiple
MaxExpenseBalance == 2

\* the payments a behaviour makes that are accepted
MaxPayments == 2

\* annual rates validateCreditCard accepts: 1% and 2% a month
ExpenseRates == {12, 24}

\* the amounts of the payments, in cents
PaymentCents == {0, 1, 2, 60}

Date(year, month, day) == [year |-> year, month |-> month, day |-> day]

\* due dates: the last day of a January and the middle of a December
DueDates == {Date(2024, 1, 31), Date(2024, 12, 15)}

DaysInMonth(year, month) ==
    IF month = 2
    THEN (IF year % 4 = 0 /\ (year % 100 # 0 \/ year % 400 = 0) THEN 29 ELSE 28)
    ELSE IF month \in {4, 6, 9, 11} THEN 30
    ELSE 31

\* the date the Date object holds for a month past December or a day past
\* the end of the month
RECURSIVE NormalizeDate(_, _, _)
NormalizeDate(year, month, day) ==
    IF month > 12 THEN NormalizeDate(year + 1, month - 12, day)
    ELSE IF day > DaysInMonth(year, month)
         THEN NormalizeDate(year, month + 1, day - DaysInMonth(year, month))
         ELSE Date(year, month, day)

\* lines 400-402: nextDueDate.setMonth(nextDueDate.getMonth() + 1)
NextDueDate(dueDate) == NormalizeDate(dueDate.year, dueDate.month + 1, dueDate.day)

\* a card addCreditCard stored: no payments yet
NewCard(id, balance, interestRate, dueDate) ==
    [id                |-> id,
     balance           |-> balance,
     interestRate      |-> interestRate,
     dueDate           |-> dueDate,
     totalInterestPaid |-> Zero,
     paymentHistory    |-> <<>>]

CardInputs(id) ==
    {NewCard(id, Cents(50 * b), RInt(rate), dueDate) :
        b \in 0 .. MaxExpenseBalance, rate \in ExpenseRates, dueDate \in DueDates}

\* the index of the first card with this id, or 0
FindCard(creditCards, cardId) ==
    IF \E k \in 1 .. Len(creditCards) : creditCards[k].id = cardId
    THEN CHOOSE k \in 1 .. Len(creditCards) :
             /\ creditCards[k].id = cardId
             /\ \A j \in 1 .. k - 1 : creditCards[j].id # cardId
    ELSE 0

\* line 380
PrincipalPaid(card, amount) ==
    RMin(RSub(amount, calculateMonthlyInterest(card.balance, card.interestRate)),
         card.balance)

\* a plausible slip: a payment of the interest alone goes through
PaymentRefusedBelowInterest(creditCards, cardId, amount) ==
    \/ FindCard(creditCards, cardId) = 0
    \/ RLeq(amount, Zero)
    \/ RLess(PrincipalPaid(creditCards[FindCard(creditCards, cardId)], amount), Zero)

\* lines 376-382: the two early returns
PaymentRefused(creditCards, cardId, amount) ==
    \/ FindCard(creditCards, cardId) = 0
    \/ RLeq(amount, Zero)
    \/ RLeq(PrincipalPaid(creditCards[FindCard(creditCards, cardId)], amount), Zero)

\* lines 379-402: the card after an accepted payment
CardAfterPayment(card, amount) ==
    LET interestCharged == calculateMonthlyInterest(card.balance, card.interestRate)
        principalPaid   == PrincipalPaid(card, amount)
        balance         == IF RLess(RSub(card.balance, principalPaid), Zero) THEN Zero
                           ELSE RSub(card.balance, principalPaid)
    IN  [card EXCEPT
           !.balance           = balance,
           !.paymentHistory    = <<[amount           |-> amount,
                                    interestCharged  |-> interestCharged,
                                    principalPaid    |-> principalPaid,
                                    remainingBalance |-> balance]>> \o @,
           !.totalInterestPaid = RAdd(@, interestCharged),
           !.dueDate           = NextDueDate(@)]

\* the payments of all cards
RECURSIVE PaymentCount(_)
PaymentCount(creditCards) ==
    IF creditCards = <<>> THEN 0
    ELSE Len(Head(creditCards).paymentHistory) + PaymentCount(Tail(creditCards))

\* the store after addCreditCard calls, and the call it gets
ExpenseStore(creditCards) ==
    [pc          |-> "ready",
     creditCards |-> creditCards,
     saved       |-> creditCards,
     call        |-> [cardId |-> 0, amount |-> Zero, returned |-> FALSE]]

ExpenseInputs ==
    {ExpenseStore(<<c>>) : c \in CardInputs(1)}
    \cup {ExpenseStore(<<c, d>>) : c \in CardInputs(1), d \in CardInputs(2)}

\* lines 375-406: makePayment(cardId, amount), with saveExpenseData
MakePayment ==
    /\ expense.pc = "ready"
    /\ \E cardId \in 0 .. 2, cents \in PaymentCents :
          LET amount == Cents(cents)
              k      == FindCard(expense.creditCards, cardId)
              call   == [cardId |-> cardId, amount |-> amount]
          IN  IF PaymentRefused(expense.creditCards, cardId, amount)
              THEN expense' = [expense EXCEPT
                      !.call = [cardId |-> cardId, amount |-> amount, returned |-> FALSE]]
              ELSE /\ PaymentCount(expense.creditCards) < MaxPayments
                   /\ LET creditCards ==
                              [expense.creditCards EXCEPT ![k] = CardAfterPayment(@, amount)]
                      IN  expense' = [expense EXCEPT
                             !.creditCards = creditCards,
                             !.saved       = creditCards,
                             !.call        = [cardId |-> cardId, amount |-> amount,
                                              returned |-> TRUE]]
    /\ UNCHANGED <<engineVars, afford, util, notes, storage, mstore, watch>>

ExpenseIdle == [ExpenseStore(<<>>) EXCEPT !.pc = "idle"]

(***************************************************************************)
(* services/storage: StorageService over localStorage.  A key of            *)
(* localStorage is a prefix and the rest of its name, localStorage is the   *)
(* function from the keys it holds to their texts.  A stored text is the    *)
(* JSON text of a value, encrypted or not.  A backup text is what           *)
(* JSON.parse makes of it.                                                  *)
(***************************************************************************)
\* line 314
storagePrefix == "finance_calc_"

StorageKey(prefix, name) == [prefix |-> prefix, name |-> name]

\* lines 337-339
getKey(key) == StorageKey(storagePrefix, key)

\* line 325: the key isStorageAvailable writes and removes
StorageTestKey == StorageKey("", "__storage_test__")

\* the keys of other scripts of the page
OtherKeys == {StorageKey("", "other_app_data"), StorageTestKey}

\* the keys and the values the callers pass
ItemKeys == {"settings", "creditCards"}

ItemValues == {"a", "b"}

\* lines 351-352: encrypt(JSON.stringify(data)), and the texts of others
StoredText(encrypted, data) == [encrypted |-> encrypted, json |-> data]

\* localStorage.setItem, localStorage.removeItem
LocalStorageSetItem(items, key, text) ==
    [k \in DOMAIN items \cup {key} |-> IF k = key THEN text ELSE items[k]]

LocalStorageRemoveItem(items, key) == [k \in DOMAIN items \ {key} |-> items[k]]

\* lines 323-332: localStorage after isStorageAvailable returned true
AfterStorageTest(items) ==
    LocalStorageRemoveItem(
        LocalStorageSetItem(items, StorageTestKey, StoredText(FALSE, "__storage_test__")),
        StorageTestKey)

\* lines 410-420: the keys that start with the prefix are removed
ClearedItems(items) ==
    [k \in {key \in DOMAIN items : key.prefix # storagePrefix} |-> items[k]]

\* lines 344-360: localStorage after setItem(key, data, true)
ItemsAfterSetItem(items, available, key, data) ==
    IF available
    THEN LocalStorageSetItem(AfterStorageTest(items), getKey(key), StoredText(TRUE, data))
    ELSE items

\* lines 404-426: localStorage after clear()
ItemsAfterClear(items, available) ==
    IF available THEN ClearedItems(AfterStorageTest(items)) ELSE items

\* what JSON.parse makes of the backup texts: a syntax error, null, and
\* objects whose data field is missing, null, a string, a number, an array or
\* an object
ParsedData(type, value) == [type |-> type, value |-> value]

DataFields ==
    {ParsedData("undefined", ""), ParsedData("null", ""),
     ParsedData("string", ""), ParsedData("string", "a"),
     ParsedData("number", 0), ParsedData("number", 1),
     ParsedData("array", <<>>), ParsedData("array", <<"a">>)}
    \cup {ParsedData("object", entries) :
             entries \in UNION {[keys -> ItemValues] : keys \in SUBSET ItemKeys}}

BackupTexts ==
    {[json |-> "error"], [json |-> "null"]}
    \cup {[json |-> "object", data |-> data] : data \in DataFields}

\* !parsed.data is false
IsTruthy(data) ==
    /\ data.type \notin {"undefined", "null"}
    /\ data.type = "string" => data.value # ""
    /\ data.type = "number" => data.value # 0

\* typeof parsed.data === 'object'
TypeofObject(data) == data.type \in {"null", "array", "object"}

\* lines 518-522: JSON.parse and the format check do not throw
BackupAccepted(backupData) ==
    /\ backupData.json = "object"
    /\ IsTruthy(backupData.data)
    /\ TypeofObject(backupData.data)

\* Object.entries(parsed.data): the names and their values
EntryNames(data) ==
    IF data.type = "array" THEN {"0"} \cap {"0" : k \in DOMAIN data.value}
    ELSE DOMAIN data.value

EntryValue(data, name) ==
    IF data.type = "array" THEN data.value[1] ELSE data.value[name]

\* lines 528-530: setItem(key, value, true) for every entry
RECURSIVE ItemsAfterEntries(_, _, _, _)
ItemsAfterEntries(items, available, data, names) ==
    IF names = {} THEN items
    ELSE LET name == CHOOSE n \in names : TRUE
         IN  ItemsAfterEntries(
                 ItemsAfterSetItem(items, available, name, EntryValue(data, name)),
                 available, data, names \ {name})

\* the service over a localStorage that takes writes or refuses them, with
\* the keys of other scripts in it, and the call it gets
StorageCall(op, key, data, returned) ==
    [op |-> op, key |-> key, data |-> data, returned |-> returned]

StorageStart(available, items) ==
    [pc        |-> "ready",
     available |-> available,
     items     |-> items,
     call      |-> StorageCall("none", "", ParsedData("undefined", ""), FALSE)]

StorageInputs ==
    {StorageStart(available, [k \in keys |-> StoredText(FALSE, k.name)]) :
        available \in BOOLEAN, keys \in SUBSET OtherKeys}

\* lines 344-360
SetItem ==
    /\ storage.pc = "ready"
    /\ \E key \in ItemKeys, data \in ItemValues :
          storage' = [storage EXCEPT
             !.items = ItemsAfterSetItem(@, storage.available, key, data),
             !.call  = StorageCall("setItem", key, ParsedData("string", data), storage.available)]
    /\ UNCHANGED <<engineVars, afford, util, notes, expense, mstore, watch>>

\* lines 387-399
RemoveItem ==
    /\ storage.pc = "ready"
    /\ \E key \in ItemKeys :
          storage' = [storage EXCEPT
             !.items = IF storage.available
                       THEN LocalStorageRemoveItem(AfterStorageTest(@), getKey(key))
                       ELSE @,
             !.call  = StorageCall("removeItem", key, ParsedData("undefined", ""), storage.available)]
    /\ UNCHANGED <<engineVars, afford, util, notes, expense, mstore, watch>>

\* lines 404-426
Clear ==
    /\ storage.pc = "ready"
    /\ storage' = [storage EXCEPT
          !.items = ItemsAfterClear(@, storage.available),
          !.call  = StorageCall("clear", "", ParsedData("undefined", ""), storage.available)]
    /\ UNCHANGED <<engineVars, afford, util, notes, expense, mstore, watch>>

\* lines 516-537
ImportData ==
    /\ storage.pc = "ready"
    /\ \E backupData \in BackupTexts :
          IF BackupAccepted(backupData)
          THEN storage' = [storage EXCEPT
                  !.items = ItemsAfterEntries(
                                ItemsAfterClear(@, storage.available),
                                storage.available, backupData.data,
                                EntryNames(backupData.data)),
                  !.call  = StorageCall("importData", "", backupData, TRUE)]
          ELSE storage' = [storage EXCEPT
                  !.call  = StorageCall("importData", "", backupData, FALSE)]
    /\ UNCHANGED <<engineVars, afford, util, notes, expense, mstore, watch>>

StorageIdle == [StorageStart(TRUE, <<>>) EXCEPT !.pc = "idle"]

(***************************************************************************)
(* stores/mortgage: the inputs and results of the mortgage store, with      *)
(* validateMortgageInputs of utils/validation.ts.  No interest rate that    *)
(* the validation accepts has a power (1 + r)^n within 32 bits, so of the   *)
(* record calculateMortgage returns the store of the model keeps the fields *)
(* that do not need it: principal, monthlyTax, monthlyInsurance, monthlyPMI.*)
(***************************************************************************)
\* validation.ts lines 15-23
MortgageRules ==
    [loanAmount    |-> [min |-> RInt(1000), max |-> RInt(10000000)],
     downPayment   |-> [min |-> RInt(0),    max |-> RInt(5000000)],
     interestRate  |-> [min |-> Rat(1, 100), max |-> RInt(30)],
     loanTermYears |-> [min |-> RInt(1),    max |-> RInt(50)],
     propertyTax   |-> [min |-> RInt(0),    max |-> RInt(100000)],
     homeInsurance |-> [min |-> RInt(0),    max |-> RInt(50000)],
     pmiRate       |-> [min |-> RInt(0),    max |-> RInt(5)]]

OutOfRange(x, rule) == RLess(x, rule.min) \/ RLess(rule.max, x)

\* validation.ts lines 43-100: the fields with an error.  All seven fields of
\* the store's inputs are defined
validateMortgageInputs(inputs) ==
    {field \in {"loanAmount", "interestRate"} :
        inputs[field] = Zero \/ OutOfRange(inputs[field], MortgageRules[field])}
    \cup {field \in {"loanTermYears"} :
        inputs[field] = 0 \/ OutOfRange(RInt(inputs[field]), MortgageRules[field])}
    \cup {field \in {"downPayment", "propertyTax", "homeInsurance", "pmiRate"} :
        OutOfRange(inputs[field], MortgageRules[field])}

\* lines 75-79
isValidInputs(inputs) == validateMortgageInputs(inputs) = {}

\* part_004 lines 280-321, without the fields that need (1 + r)^n
MortgageResults(inputs) ==
    LET actualLoanAmount   == RSub(inputs.loanAmount, inputs.downPayment)
        downPaymentPercent == RMul(RDiv(inputs.downPayment, inputs.loanAmount), RInt(100))
    IN  [isNull           |-> FALSE,
         principal        |-> actualLoanAmount,
         monthlyTax       |-> calculateMonthlyPropertyTax(inputs.propertyTax),
         monthlyInsurance |-> calculateMonthlyInsurance(inputs.homeInsurance),
         monthlyPMI       |-> IF PMIApplies(downPaymentPercent)
                              THEN calculatePMI(actualLoanAmount, inputs.pmiRate)
                              ELSE Zero]

NullResults == [isNull |-> TRUE]

\* lines 58-72: the store as it is created
MortgageStoreStart ==
    [pc               |-> "ready",
     currentInputs    |-> [loanAmount    |-> RInt(300000),
                           downPayment   |-> RInt(60000),
                           interestRate  |-> Rat(9, 2),
                           loanTermYears |-> 30,
                           propertyTax   |-> RInt(6000),
                           homeInsurance |-> RInt(1200),
                           pmiRate       |-> Rat(1, 2)],
     currentResults   |-> NullResults,
     validationErrors |-> {},
     loadingState     |-> "idle",
     call             |-> [op |-> "none", calledEngine |-> FALSE, returned |-> FALSE]]

\* the values the form passes to updateInputs
FormValues ==
    [loanAmount    |-> {RInt(0), RInt(1000), RInt(300000)},
     downPayment   |-> {RInt(0), RInt(3000), RInt(60000)},
     interestRate  |-> {RInt(0), Rat(9, 2)},
     loanTermYears |-> {0, 30}]

\* lines 111-128: the store after calculateResults
AfterCalculateResults(store, op) ==
    IF ~isValidInputs(store.currentInputs)
    THEN [store EXCEPT
            !.validationErrors = validateMortgageInputs(store.currentInputs),
            !.currentResults   = NullResults,
            !.call             = [op |-> op, calledEngine |-> FALSE, returned |-> FALSE]]
    ELSE [store EXCEPT
            !.validationErrors = {},
            !.currentResults   = MortgageResults(store.currentInputs),
            !.loadingState     = "success",
            !.call             = [op |-> op, calledEngine |-> TRUE, returned |-> TRUE]]

\* lines 102-109: updateInputs(inputs), with calculateResults for valid ones
UpdateInputs ==
    /\ mstore.pc = "ready"
    /\ \E loanAmount \in FormValues.loanAmount \cup {mstore.currentInputs.loanAmount},
          downPayment \in FormValues.downPayment \cup {mstore.currentInputs.downPayment},
          interestRate \in FormValues.interestRate \cup {mstore.currentInputs.interestRate},
          loanTermYears \in FormValues.loanTermYears
                            \cup {mstore.currentInputs.loanTermYears} :
          LET merged == [mstore EXCEPT
                           !.currentInputs.loanAmount    = loanAmount,
                           !.currentInputs.downPayment   = downPayment,
                           !.currentInputs.interestRate  = interestRate,
                           !.currentInputs.loanTermYears = loanTermYears]
          IN  mstore' =
                 IF isValidInputs(merged.currentInputs)
                 THEN AfterCalculateResults(merged, "updateInputs")
                 ELSE [merged EXCEPT
                         !.validationErrors = validateMortgageInputs(merged.currentInputs),
                         !.call = [op |-> "updateInputs", calledEngine |-> FALSE,
                                   returned |-> FALSE]]
    /\ UNCHANGED <<engineVars, afford, util, notes, expense, storage, watch>>

\* lines 111-128: calculateResults()
CalculateResults ==
    /\ mstore.pc = "ready"
    /\ mstore' = AfterCalculateResults(mstore, "calculateResults")
    /\ UNCHANGED <<engineVars, afford, util, notes, expense, storage, watch>>

MStoreIdle == [MortgageStoreStart EXCEPT !.pc = "idle"]

(***************************************************************************)
(* stores/investment: the watchlist of the investment store.  A symbol is   *)
(* its letters and the case they are written in; a watchlist item is its    *)
(* symbol and its currentPrice (name, type, addedAt and the daily changes   *)
(* are carried along and left out).                                         *)
(***************************************************************************)
\* the longest watchlist of a behaviour
MaxWatchlist == 3

Symbol(letters, case) == [letters |-> letters, case |-> case]

\* the symbols the callers pass
Symbols == {Symbol(letters, case) : letters \in {"aapl", "btc"}, case \in {"lower", "upper"}}

\* symbol.toUpperCase()
toUpperCase(symbol) == [symbol EXCEPT !.case = "upper"]

\* line 220: the prices of the mock market data
Prices == {10, 1009}

\* the index of the first item with exactly this symbol, or 0
FindItem(watchlist, symbol) ==
    IF \E k \in 1 .. Len(watchlist) : watchlist[k].symbol = symbol
    THEN CHOOSE k \in 1 .. Len(watchlist) :
             /\ watchlist[k].symbol = symbol
             /\ \A j \in 1 .. k - 1 : watchlist[j].symbol # symbol
    ELSE 0

\* lines 184-193: updateMarketData(symbol, data) on the watchlist
WatchlistWithPrice(watchlist, symbol, price) ==
    IF FindItem(watchlist, symbol) = 0 THEN watchlist
    ELSE [watchlist EXCEPT ![FindItem(watchlist, symbol)].currentPrice = price]

\* lines 17-22: the new store, and the call it gets
WatchStart ==
    [pc         |-> "ready",
     watchlist  |-> <<>>,
     saved      |-> <<>>,
     marketData |-> [s \in {} |-> 0],
     call       |-> [op |-> "none", symbol |-> Symbol("", "lower"), returned |-> FALSE]]

\* lines 88-111: addToWatchlist(symbol, name, type), with saveInvestmentData
\* and fetchMarketData([symbol]), which runs to its end within the call
AddToWatchlist ==
    /\ watch.pc = "ready"
    /\ \E symbol \in Symbols, price \in Prices :
          IF FindItem(watch.watchlist, symbol) # 0
          THEN watch' = [watch EXCEPT
                  !.call = [op |-> "addToWatchlist", symbol |-> symbol,
                            returned |-> FALSE]]
          ELSE /\ Len(watch.watchlist) < MaxWatchlist
               /\ LET newItem   == [symbol |-> toUpperCase(symbol), currentPrice |-> 0]
                      watchlist == WatchlistWithPrice(Append(watch.watchlist, newItem),
                                                      symbol, price)
                  IN  watch' = [watch EXCEPT
                         !.watchlist  = watchlist,
                         !.saved      = watchlist,
                         !.marketData = [s \in DOMAIN @ \cup {symbol} |->
                                            IF s = symbol THEN price ELSE @[s]],
                         !.call       = [op |-> "addToWatchlist", symbol |-> symbol,
                                         returned |-> TRUE]]
    /\ UNCHANGED <<engineVars, afford, util, notes, expense, storage, mstore>>

\* lines 113-121: removeFromWatchlist(symbol)
RemoveFromWatchlist ==
    /\ watch.pc = "ready"
    /\ \E symbol \in Symbols :
          LET index == FindItem(watch.watchlist, symbol)
          IN  IF index = 0
              THEN watch' = [watch EXCEPT
                      !.call = [op |-> "removeFromWatchlist", symbol |-> symbol,
                                returned |-> FALSE]]
              ELSE LET watchlist == SubSeq(watch.watchlist, 1, index - 1)
                                    \o SubSeq(watch.watchlist, index + 1,
                                              Len(watch.watchlist))
                   IN  watch' = [watch EXCEPT
                          !.watchlist = watchlist,
                          !.saved     = watchlist,
                          !.call      = [op |-> "removeFromWatchlist",
                                         symbol |-> symbol, returned |-> TRUE]]
    /\ UNCHANGED <<engineVars, afford, util, notes, expense, storage, mstore>>

WatchIdle == [WatchStart EXCEPT !.pc = "idle"]

(***************************************************************************)
(* The states of the stores and calls that take no part in a specification. *)
(***************************************************************************)
AppIdle ==
    /\ afford = AffordIdle
    /\ util = UtilIdle
    /\ notes = NotesIdle
    /\ expense = ExpenseIdle
    /\ storage = StorageIdle
    /\ mstore = MStoreIdle
    /\ watch = WatchIdle

EngineIdle ==
    /\ mort = MortgageIdle
    /\ payoff = PayoffIdle
    /\ dist = DistIdle
    /\ sched = ScheduleIdle
    /\ savings = SavingsIdle
    /\ calc = CalcIdle

InitMortgage ==
    /\ mort \in MortgageInputs
    /\ payoff = PayoffIdle
    /\ dist = DistIdle
    /\ sched = ScheduleIdle
    /\ savings = SavingsIdle
    /\ calc = CalcIdle
    /\ AppIdle

NextMortgage ==
    \/ AmortizationStart
    \/ AmortizationLoop
    \/ AmortizationReturn

SpecMortgage == InitMortgage /\ [][NextMortgage]_vars

InitPayoff ==
    /\ mort = MortgageIdle
    /\ payoff \in PayoffInputs
    /\ dist = DistIdle
    /\ sched = ScheduleIdle
    /\ savings = SavingsIdle
    /\ calc = CalcIdle
    /\ AppIdle

NextPayoff ==
    \/ PayoffReturnZero
    \/ PayoffReturnUnreachable
    \/ PayoffEnterLoop
    \/ PayoffLoop
    \/ PayoffReturn

SpecPayoff == InitPayoff /\ [][NextPayoff]_vars

InitDist ==
    /\ mort = MortgageIdle
    /\ payoff = PayoffIdle
    /\ dist \in DistInputs
    /\ sched = ScheduleIdle
    /\ savings = SavingsIdle
    /\ calc = CalcIdle
    /\ AppIdle

NextDist ==
    \/ DistSort
    \/ DistAllocateMinimum
    \/ DistAllocateExtra

SpecDist == InitDist /\ [][NextDist]_vars

InitSchedule == InitPayoff

NextSchedule ==
    \/ NextPayoff
    \/ CallSchedule
    \/ ScheduleStart
    \/ ScheduleLoop
    \/ ScheduleReturn
    \/ CallScheduleAgain

SpecSchedule == InitSchedule /\ [][NextSchedule]_vars

InitSavings ==
    /\ mort = MortgageIdle
    /\ payoff = PayoffIdle
    /\ dist = DistIdle
    /\ sched = ScheduleIdle
    /\ savings \in SavingsInputs
    /\ calc = CalcIdle
    /\ AppIdle

NextSavings ==
    \/ NextPayoff
    \/ SavingsCallMinimum
    \/ SavingsCallProposed
    \/ SavingsReturn

SpecSavings == InitSavings /\ [][NextSavings]_vars

InitCalc ==
    /\ mort = MortgageIdle
    /\ payoff = PayoffIdle
    /\ dist = DistIdle
    /\ sched = ScheduleIdle
    /\ savings = SavingsIdle
    /\ calc \in CalcInputs
    /\ AppIdle

NextCalc == CalculateMortgage

SpecCalc == InitCalc /\ [][NextCalc]_vars

InitAfford ==
    /\ EngineIdle
    /\ afford \in AffordInputs
    /\ util \in UtilInputs
    /\ notes = NotesIdle
    /\ expense = ExpenseIdle
    /\ storage = StorageIdle
    /\ mstore = MStoreIdle
    /\ watch = WatchIdle

NextAfford ==
    \/ CalculateAffordableHousePrice
    \/ CalculateCreditUtilization

SpecAfford == InitAfford /\ [][NextAfford]_vars

InitNotes ==
    /\ EngineIdle
    /\ afford = AffordIdle
    /\ util = UtilIdle
    /\ notes \in NotesInputs
    /\ expense = ExpenseIdle
    /\ storage = StorageIdle
    /\ mstore = MStoreIdle
    /\ watch = WatchIdle

NextNotes ==
    \/ AddNotification
    \/ MarkNotificationAsRead
    \/ MarkAllNotificationsAsRead
    \/ RemoveNotification

SpecNotes == InitNotes /\ [][NextNotes]_vars

InitExpense ==
    /\ EngineIdle
    /\ afford = AffordIdle
    /\ util = UtilIdle
    /\ notes = NotesIdle
    /\ expense \in ExpenseInputs
    /\ storage = StorageIdle
    /\ mstore = MStoreIdle
    /\ watch = WatchIdle

NextExpense == MakePayment

SpecExpense == InitExpense /\ [][NextExpense]_vars

InitStorage ==
    /\ EngineIdle
    /\ afford = AffordIdle
    /\ util = UtilIdle
    /\ notes = NotesIdle
    /\ expense = ExpenseIdle
    /\ storage \in StorageInputs
    /\ mstore = MStoreIdle
    /\ watch = WatchIdle

NextStorage ==
    \/ SetItem
    \/ RemoveItem
    \/ Clear
    \/ ImportData

SpecStorage == InitStorage /\ [][NextStorage]_vars

InitMStore ==
    /\ EngineIdle
    /\ afford = AffordIdle
    /\ util = UtilIdle
    /\ notes = NotesIdle
    /\ expense = ExpenseIdle
    /\ storage = StorageIdle
    /\ mstore = MortgageStoreStart
    /\ watch = WatchIdle

NextMStore ==
    \/ UpdateInputs
    \/ CalculateResults

SpecMStore == InitMStore /\ [][NextMStore]_vars

InitWatch ==
    /\ EngineIdle
    /\ afford = AffordIdle
    /\ util = UtilIdle
    /\ notes = NotesIdle
    /\ expense = ExpenseIdle
    /\ storage = StorageIdle
    /\ mstore = MStoreIdle
    /\ watch = WatchStart

NextWatch ==
    \/ AddToWatchlist
    \/ RemoveFromWatchlist

SpecWatch == InitWatch /\ [][NextWatch]_vars

(***************************************************************************)
(* Claims about the mortgage engine, checked under SpecMortgage.            *)
(***************************************************************************)
PaymentComputed == mort.pc \in {"loop", "done"}

TotalOfPayments == RMul(RMul(mort.monthlyPayment, RInt(mort.loanTermYears)), RInt(12))

LastEntry == mort.schedule[Len(mort.schedule)]

\* C1 as stated: the monthly payment times term times 12 is at least the
\* principal, for every principal > 0, rate >= 0 and term > 0.
C1_PaymentsCoverPrincipal ==
    PaymentComputed => RLeq(mort.principal, TotalOfPayments)

\* C1 as amended: the cent-rounded payment summed over the term falls short
\* of the principal by less than half a cent per payment.
C1_ShortfallBelowHalfCentPerPayment ==
    PaymentComputed =>
        RLess(RSub(mort.principal, TotalOfPayments),
              RMul(RInt(mort.loanTermYears * 12), Rat(1, 200)))

\* C1 witness: a zero-rate payment, rounded down, whose total is below the
\* principal.
C1_Witness ==
    /\ PaymentComputed
    /\ mort.annualInterestRate = Zero
    /\ RLess(TotalOfPayments, mort.principal)

\* C2: the last entry of the schedule has a remaining balance within 0.01 of
\* zero (the loan is fully amortized at the end of the term).
C2_FinalBalanceWithinOneCent ==
    mort.pc = "done" => RLeq(RAbs(LastEntry.remainingBalance), Rat(1, 100))

\* C3: across the schedule the remaining balance never increases from one
\* entry to the next and is never negative.
C3_BalanceNonIncreasing ==
    \A i \in 1 .. Len(mort.schedule) :
        /\ RLeq(Zero, mort.schedule[i].remainingBalance)
        /\ i > 1 => RLeq(mort.schedule[i].remainingBalance,
                         mort.schedule[i - 1].remainingBalance)

\* C4: the schedule returned has exactly termYears * 12 entries, entry i has
\* month = i, and the loop neither stops early nor runs past the term.
C4_ScheduleLength ==
    /\ Len(mort.schedule) <= mort.loanTermYears * 12
    /\ \A i \in 1 .. Len(mort.schedule) : mort.schedule[i].month = i
    /\ mort.pc = "done" => Len(mort.schedule) = mort.loanTermYears * 12

\* C4 witness: a returned schedule whose balance was already clamped to 0
\* before the last month.
C4_Witness ==
    /\ mort.pc = "done"
    /\ \E i \in 1 .. Len(mort.schedule) - 1 : mort.schedule[i].remainingBalance = Zero

\* C5: calculateTotalInterest of the monthly payment differs from the last
\* entry's cumulative totalInterestPaid by at most 0.05.
C5_TotalInterestRoundTrip ==
    mort.pc = "done" =>
        RLeq(RAbs(RSub(calculateTotalInterest(mort.monthlyPayment, mort.loanTermYears,
                                              mort.principal),
                       LastEntry.totalInterestPaid)),
             Rat(5, 100))

(***************************************************************************)
(* Claims about calculatePayoffTime, checked under SpecPayoff.              *)
(***************************************************************************)
\* the interest that accrues on the initial balance in the first month
FirstPeriodInterest ==
    RMul(payoff.balance, RDiv(RDiv(payoff.annualInterestRate, RInt(100)), RInt(12)))

Unreachable == [months |-> Infinity, totalInterest |-> Infinity, totalPaid |-> Infinity]

\* C6: with balance > 0 and 0 < payment <= the interest accruing on the
\* initial balance in the first month, calculatePayoffTime returns the
\* unreachable sentinel and never enters the simulation loop.
C6_PaymentAtOrBelowInterestIsUnreachable ==
    ( /\ RLess(Zero, payoff.balance)
      /\ RLess(Zero, payoff.monthlyPayment)
      /\ RLeq(payoff.monthlyPayment, FirstPeriodInterest) )
    => /\ payoff.pc \in {"start", "done"}
       /\ payoff.pc = "done" => payoff.result = Unreachable

\* C7: the simulation loop runs at most 600 iterations, and a finite months
\* returned lies in 0 .. 600.
C7_LoopCappedAt600 ==
    /\ payoff.months <= MaxMonths
    /\ (payoff.pc = "done" /\ IsFinite(payoff.result.months)) =>
           /\ payoff.result.months.d = 1
           /\ payoff.result.months.n \in 0 .. MaxMonths

\* C7 witness: a call that returns at the cap with the balance still above
\* one cent.
C7_Witness ==
    /\ payoff.pc = "done"
    /\ payoff.result.months = RInt(MaxMonths)
    /\ RLess(Rat(1, 100), payoff.currentBalance)

(***************************************************************************)
(* Claims about calculateOptimalPaymentDistribution, checked under SpecDist. *)
(***************************************************************************)
RECURSIVE SumPayments(_)
SumPayments(payments) ==
    IF payments = <<>> THEN 0
    ELSE Head(payments).payment + SumPayments(Tail(payments))

RECURSIVE Sum(_)
Sum(amounts) == IF amounts = <<>> THEN 0 ELSE Head(amounts) + Sum(Tail(amounts))

\* the input card with this id
CardById(id) == CHOOSE c \in {dist.cards[k] : k \in 1 .. Len(dist.cards)} : c.id = id

\* the input card an allocation record is for
PaidCard(k) == CardById(dist.payments[k].cardId)

\* C8: the sum of the payments never exceeds totalBudget, neither during the
\* minimum-allocation phase nor after the surplus phase.
C8_SumWithinBudget ==
    dist.pc \in {"minimums", "done"} =>
        SumPayments(dist.payments) <= dist.totalPaymentBudget

\* C8 witness: two cards, the surplus went to the first, and the whole
\* budget is spent.
C8_Witness ==
    /\ dist.pc = "done"
    /\ Len(dist.payments) >= 2
    /\ dist.payments[1].payment > PaidCard(1).minimumPayment
    /\ SumPayments(dist.payments) = dist.totalPaymentBudget

\* C9: every allocation satisfies 0 <= payment <= the balance of its card.
C9_PaymentWithinBalance ==
    \A k \in 1 .. Len(dist.payments) :
        /\ 0 <= dist.payments[k].payment
        /\ dist.payments[k].payment <= PaidCard(k).balance

\* C9 witness: a card whose minimum exceeds its balance, and a priority card
\* whose surplus was capped at its balance.
C9_Witness ==
    /\ dist.pc = "done"
    /\ \E k \in 1 .. Len(dist.payments) : PaidCard(k).minimumPayment > PaidCard(k).balance
    /\ dist.payments[1].payment > PaidCard(1).minimumPayment
    /\ dist.payments[1].payment = PaidCard(1).balance
    /\ SumPayments(dist.payments) < dist.totalPaymentBudget

\* first in priority order: the highest rate (avalanche) or the lowest
\* balance (snowball), the earliest such card of the input
IsPriorityCard(c) ==
    \A k \in 1 .. Len(dist.cards) :
        LET o == dist.cards[k]
        IN  IF dist.strategy = "avalanche"
            THEN o.interestRate < c.interestRate
                 \/ (o.interestRate = c.interestRate /\ c.id <= o.id)
            ELSE c.balance < o.balance
                 \/ (c.balance = o.balance /\ c.id <= o.id)

\* the phase 1 allocations of the cards in this order under this budget
RECURSIVE ExpectedMinimums(_, _)
ExpectedMinimums(cards, budget) ==
    IF cards = <<>> THEN <<>>
    ELSE LET c == Head(cards)
             a == IF c.minimumPayment <= budget /\ c.minimumPayment <= c.balance
                  THEN c.minimumPayment
                  ELSE IF budget <= c.balance THEN budget ELSE c.balance
         IN  <<a>> \o ExpectedMinimums(Tail(cards), budget - a)

\* C10: the budget left after the minimums goes only to the first card in
\* priority order, which receives min(balance, minimum allocation + budget
\* left); every other card receives exactly its phase 1 allocation.
C10_SurplusToPriorityCardOnly ==
    dist.pc = "done" =>
        LET n        == Len(dist.payments)
            expected == ExpectedMinimums([k \in 1 .. n |-> PaidCard(k)],
                                         dist.totalPaymentBudget)
            left     == dist.totalPaymentBudget - Sum(expected)
        IN  /\ n = Len(dist.cards)
            /\ \A k \in 2 .. n : dist.payments[k].payment = expected[k]
            /\ n > 0 =>
                 /\ IsPriorityCard(PaidCard(1))
                 /\ dist.payments[1].payment =
                        IF PaidCard(1).balance <= expected[1] + left
                        THEN PaidCard(1).balance
                        ELSE expected[1] + left

\* C10 witness: avalanche, the second input card has the higher rate and
\* received a surplus on top of its minimum.
C10_Witness ==
    /\ dist.pc = "done"
    /\ dist.strategy = "avalanche"
    /\ Len(dist.cards) >= 2
    /\ dist.cards[1].interestRate < dist.cards[2].interestRate
    /\ dist.payments[1].cardId = 2
    /\ dist.payments[1].payment > dist.cards[2].minimumPayment
    /\ dist.payments[2].payment > 0

\* min(minimumPayment, balance) of the card of allocation record k
EffectiveMinimum(k) ==
    IF PaidCard(k).minimumPayment <= PaidCard(k).balance
    THEN PaidCard(k).minimumPayment
    ELSE PaidCard(k).balance

\* allocation record k holds less than min(minimumPayment, balance)
IsShort(k) == dist.payments[k].payment < EffectiveMinimum(k)

\* C11: minimums are honored in priority order: if a card receives less than
\* min(minimumPayment, balance), the budget was exhausted at that card and
\* every later card receives 0.
C11_MinimumsInPriorityOrder ==
    dist.pc = "done" =>
        \A k \in 1 .. Len(dist.payments) :
            IsShort(k) =>
                /\ SumPayments(SubSeq(dist.payments, 1, k)) = dist.totalPaymentBudget
                /\ \A j \in k + 1 .. Len(dist.payments) : dist.payments[j].payment = 0

\* C11 witness: the first card received a part of its minimum, and a second
\* card with a positive minimum received nothing.
C11_Witness ==
    /\ dist.pc = "done"
    /\ Len(dist.payments) >= 2
    /\ 0 < dist.payments[1].payment
    /\ IsShort(1)
    /\ EffectiveMinimum(2) > 0
    /\ dist.payments[2].payment = 0

RECURSIVE SumMinimumPayments(_)
SumMinimumPayments(cards) ==
    IF cards = <<>> THEN 0
    ELSE Head(cards).minimumPayment + SumMinimumPayments(Tail(cards))

\* C12 as stated (for a positive budget): whenever totalBudget is below the
\* sum of the cards' minimum payments, the sum of the payments is strictly
\* less than totalBudget.
C12_BelowMinimumsNotFullySpent ==
    ( /\ dist.pc = "done"
      /\ 0 < dist.totalPaymentBudget
      /\ dist.totalPaymentBudget < SumMinimumPayments(dist.cards) )
    => SumPayments(dist.payments) < dist.totalPaymentBudget

\* what the cards can take: every min(minimumPayment, balance), plus the
\* rest of the balance of the first card in priority order
AllocatableCapacity ==
    LET n == Len(dist.payments)
    IN  Sum([k \in 1 .. n |-> EffectiveMinimum(k)])
        + (IF n > 0 THEN PaidCard(1).balance - EffectiveMinimum(1) ELSE 0)

\* C12 as amended: the sum of the payments is the smaller of totalBudget and
\* the allocatable capacity; a budget below the sum of the minimums is spent
\* in full unless the balances are too small to take it.
C12_SumIsBudgetOrCapacity ==
    dist.pc = "done" =>
        SumPayments(dist.payments) =
            IF dist.totalPaymentBudget <= AllocatableCapacity
            THEN dist.totalPaymentBudget
            ELSE AllocatableCapacity

\* C12 witness: a positive budget below the sum of the minimums, spent in
\* full; the last card received only a part of its minimum.
C12_Witness ==
    /\ dist.pc = "done"
    /\ 0 < dist.totalPaymentBudget
    /\ dist.totalPaymentBudget < SumMinimumPayments(dist.cards)
    /\ SumPayments(dist.payments) = dist.totalPaymentBudget
    /\ \E k \in 1 .. Len(dist.payments) : 0 < dist.payments[k].payment /\ IsShort(k)

\* sortedCards[k] comes before sortedCards[l] in the order of the strategy,
\* cards with equal keys in their input order
InPriorityOrder(k, l) ==
    LET a == dist.sortedCards[k]
        b == dist.sortedCards[l]
    IN  IF dist.strategy = "avalanche"
        THEN a.interestRate > b.interestRate
             \/ (a.interestRate = b.interestRate /\ a.id < b.id)
        ELSE a.balance < b.balance
             \/ (a.balance = b.balance /\ a.id < b.id)

\* C13: the sorted list is a permutation of the input, by interestRate
\* non-increasing (avalanche) or balance non-decreasing (snowball), stable;
\* the input list is unmodified; the distribution holds exactly one record
\* per input card in that order.
C13_StableSortedPermutation ==
    /\ \A k \in 1 .. Len(dist.cards) : dist.cards[k].id = k
    /\ dist.pc \in {"minimums", "done"} =>
          /\ Len(dist.sortedCards) = Len(dist.cards)
          /\ \A k \in 1 .. Len(dist.sortedCards) :
                 /\ dist.sortedCards[k].id \in 1 .. Len(dist.cards)
                 /\ dist.sortedCards[k] = dist.cards[dist.sortedCards[k].id]
          /\ \A k, l \in 1 .. Len(dist.sortedCards) : k < l => InPriorityOrder(k, l)
    /\ dist.pc = "done" =>
          /\ Len(dist.payments) = Len(dist.cards)
          /\ \A k \in 1 .. Len(dist.payments) :
                 dist.payments[k].cardId = dist.sortedCards[k].id

\* C13 witness: under avalanche two cards with the same interestRate kept
\* their input order, although the second has the smaller balance.
C13_Witness ==
    /\ dist.pc = "done"
    /\ dist.strategy = "avalanche"
    /\ Len(dist.sortedCards) = 2
    /\ dist.sortedCards[1].interestRate = dist.sortedCards[2].interestRate
    /\ dist.sortedCards[1].balance > dist.sortedCards[2].balance
    /\ dist.sortedCards[1].id = 1
    /\ dist.payments[2].cardId = 2

(***************************************************************************)
(* Claims about generatePaymentSchedule, checked under SpecSchedule.        *)
(***************************************************************************)
\* generatePaymentSchedule has returned, for the arguments of the
\* calculatePayoffTime call held in payoff
ScheduleReturned == sched.pc = "done" /\ payoff.pc = "done"

\* C14: if calculatePayoffTime returns finite months m, the schedule has
\* exactly min(maxMonths, m) entries, the last one with remainingBalance
\* <= 0.01 when maxMonths >= m; if it returns the unreachable sentinel, the
\* schedule is empty.
C14_ScheduleFollowsPayoffTime ==
    ScheduleReturned =>
        IF IsFinite(payoff.result.months)
        THEN LET m == payoff.result.months.n
             IN  /\ Len(sched.schedule) = Min(sched.maxMonths, m)
                 /\ (sched.maxMonths >= m /\ m > 0) =>
                       RLeq(sched.schedule[Len(sched.schedule)].remainingBalance,
                            Rat(1, 100))
        ELSE sched.schedule = <<>>

\* C15: called twice with identical inputs, generatePaymentSchedule returns
\* identical output; no field depends on the clock.
C15_ScheduleDeterministic ==
    (sched.pc = "done" /\ sched.earlier # <<>>) =>
        sched.schedule = sched.earlier[1]

(***************************************************************************)
(* More claims about calculatePayoffTime, checked under SpecPayoff.         *)
(***************************************************************************)
\* the guard of lines 34-36 applies to the call
PayoffGuardCase ==
    RLeq(payoff.monthlyPayment, Zero) \/ RLeq(payoff.balance, Zero)

PayoffZeroResult ==
    payoff.result = [months |-> Zero, totalInterest |-> Zero, totalPaid |-> Zero]

\* x is a whole number of cents
WholeCents(x) == Round2(x) = x

NotNegative(x) == x = Infinity \/ (IsFinite(x) /\ x.n >= 0)

\* C20: for every balance > 0, rate >= 0 and 0 < minimumPayment <=
\* proposedPayment, calculateInterestSavings returns interestSaved >= 0 and
\* timeSaved >= 0.
C20_PayingMoreNeverCostsMore ==
    ( /\ savings.pc = "done"
      /\ savings.balance > 0
      /\ 0 < savings.minimumPayment
      /\ savings.minimumPayment <= savings.proposedPayment )
    => /\ NotNegative(savings.result.interestSaved)
       /\ NotNegative(savings.result.timeSaved)

(***************************************************************************)
(* Claims about calculateMortgage, checked under SpecCalc.                  *)
(***************************************************************************)
\* downPayment / loanAmount < 0.20, with loanAmount > 0
DownPaymentBelow20Percent ==
    RLess(RDiv(calc.inputs.downPayment, calc.inputs.loanAmount), Rat(1, 5))

\* the monthly PMI charge on the financed amount before it is rounded
UnroundedPMI ==
    RDiv(RMul(RSub(calc.inputs.loanAmount, calc.inputs.downPayment),
              RDiv(calc.inputs.pmiRate, RInt(100))), RInt(12))

\* C16 as stated: monthlyPMI > 0 for every input with downPayment/loanAmount
\* < 0.20 and pmiRate > 0 (loanAmount > 0, downPayment <= loanAmount).
C16_PMIPositiveWhenApplied ==
    ( /\ calc.pc = "done"
      /\ DownPaymentBelow20Percent
      /\ RLess(Zero, calc.inputs.pmiRate) )
    => RLess(Zero, calc.result.monthlyPMI)

\* C16 as amended: with downPayment/loanAmount < 0.20 and pmiRate > 0,
\* monthlyPMI is the charge rounded to cents: positive exactly when the
\* unrounded charge is at least half a cent, and 0 below that.
C16_PMIPositiveFromHalfACent ==
    ( /\ calc.pc = "done"
      /\ DownPaymentBelow20Percent
      /\ RLess(Zero, calc.inputs.pmiRate) )
    => /\ RLeq(Zero, calc.result.monthlyPMI)
       /\ RLess(Zero, calc.result.monthlyPMI) <=> RLeq(Rat(1, 200), UnroundedPMI)
       /\ RLess(RAbs(RSub(calc.result.monthlyPMI, UnroundedPMI)), Rat(1, 100))

\* C16 witness: PMI applies and a charge of less than one cent is rounded up
\* to a cent.
C16_Witness ==
    /\ calc.pc = "done"
    /\ DownPaymentBelow20Percent
    /\ RLess(Zero, calc.inputs.pmiRate)
    /\ RLess(UnroundedPMI, Rat(1, 100))
    /\ calc.result.monthlyPMI = Rat(1, 100)

\* C17: monthlyPMI = 0 for every input whose down payment is at least 20% of
\* loanAmount, the boundary included, whatever pmiRate is.
C17_NoPMIFrom20Percent ==
    (calc.pc = "done" /\ ~DownPaymentBelow20Percent) => calc.result.monthlyPMI = Zero

\* C17 witness: a down payment of exactly 20% and a PMI rate whose charge
\* would not round to 0.
C17_Witness ==
    /\ calc.pc = "done"
    /\ RMul(calc.inputs.downPayment, RInt(5)) = calc.inputs.loanAmount
    /\ RLeq(Rat(1, 200), UnroundedPMI)
    /\ calc.result.monthlyPMI = Zero

\* C18: the record is consistent: principal = loanAmount - downPayment,
\* totalMonthlyPayment = monthlyPayment + monthlyTax + monthlyInsurance +
\* monthlyPMI, interest = totalInterest = monthlyPayment * term * 12 -
\* principal rounded to cents, totalCost = principal + totalInterest +
\* (monthlyTax + monthlyInsurance) * term * 12.
C18_RecordConsistent ==
    calc.pc = "done" =>
        LET r      == calc.result
            months == RInt(calc.inputs.loanTermYears * 12)
        IN  /\ r.principal = RSub(calc.inputs.loanAmount, calc.inputs.downPayment)
            /\ r.totalMonthlyPayment =
                   RAdd(r.monthlyPayment,
                        RAdd(r.monthlyTax, RAdd(r.monthlyInsurance, r.monthlyPMI)))
            /\ r.interest = r.totalInterest
            /\ r.totalInterest =
                   Round2(RSub(RMul(r.monthlyPayment, months), r.principal))
            /\ r.totalCost =
                   RAdd(r.principal,
                        RAdd(r.totalInterest,
                             RMul(RAdd(r.monthlyTax, r.monthlyInsurance), months)))

\* C18 witness: a record with a payment at a positive rate, tax, insurance
\* and PMI.
C18_Witness ==
    /\ calc.pc = "done"
    /\ RLess(Zero, calc.inputs.interestRate)
    /\ RLess(Zero, calc.result.monthlyPayment)
    /\ RLess(Zero, calc.result.monthlyTax)
    /\ RLess(Zero, calc.result.monthlyInsurance)
    /\ RLess(Zero, calc.result.monthlyPMI)
    /\ RLess(Zero, calc.result.totalInterest)

(***************************************************************************)
(* Claims about calculateAffordableHousePrice and                           *)
(* calculateCreditUtilization, checked under SpecAfford.                    *)
(***************************************************************************)
\* C21: calculateAffordableHousePrice returns a value rounded to cents on
\* every path: the early return, the zero-rate branch and the general branch.
C21_AffordablePriceRoundedToCents ==
    (afford.pc = "done" /\ IsFinite(afford.result)) => WholeCents(afford.result)

\* C22: calculateCreditUtilization returns 0 whenever creditLimit <= 0;
\* calculateAffordableHousePrice returns a finite number for every
\* monthlyBudget, monthlyTaxInsurance >= 0, rate >= 0, termYears > 0 and
\* downPaymentPct in 0..100, and 0 when monthlyBudget - monthlyTaxInsurance
\* <= 0.
C22_ZeroDenominatorsGuarded ==
    /\ (util.pc = "done" /\ RLeq(util.creditLimit, Zero)) => util.result = Zero
    /\ afford.pc = "done" =>
          /\ IsFinite(afford.result)
          /\ RLeq(afford.monthlyBudget, afford.monthlyTaxInsurance) =>
                afford.result = Zero

(***************************************************************************)
(* Claims about the notification list, checked under SpecNotes.             *)
(***************************************************************************)
\* at most 50 notifications, the newest first
NotificationsBoundedAndOrdered ==
    /\ Len(notes.list) <= NotificationLimit
    /\ \A i, j \in 1 .. Len(notes.list) :
          i < j => notes.list[i].createdAt > notes.list[j].createdAt

\* an addNotification step: the new notification is at index 0, unread, in
\* front of the earlier ones, of which the oldest is dropped from a full list
NewestFirstOldestDropped ==
    notes'.added = notes.added + 1 =>
        /\ notes'.list[1] = [id |-> notes'.added, createdAt |-> notes'.added,
                             isRead |-> FALSE]
        /\ Tail(notes'.list) =
               IF Len(notes.list) = NotificationLimit
               THEN SubSeq(notes.list, 1, NotificationLimit - 1)
               ELSE notes.list

\* C23: after any sequence of addNotification, markNotificationAsRead,
\* markAllNotificationsAsRead and removeNotification calls the list holds at
\* most 50 notifications, newest first; when a 51st is added the oldest is
\* dropped and the new one is at index 0 with isRead = false.
C23_NotificationsLimitedNewestFirst ==
    [](NotificationsBoundedAndOrdered) /\ [][NewestFirstOldestDropped]_vars

\* C23 witness: a 51st notification was added to a full list, the list holds
\* 50 with the oldest gone and the new one unread in front of read ones.
C23_Witness ==
    /\ notes.pc = "ready"
    /\ notes.added = NotificationLimit + 1
    /\ Len(notes.list) = NotificationLimit
    /\ notes.list[1].id = notes.added
    /\ ~notes.list[1].isRead
    /\ notes.list[2].isRead
    /\ notes.list[NotificationLimit].id = 2

(***************************************************************************)
(* Claims about makePayment of the expense store, checked under SpecExpense.*)
(***************************************************************************)
\* the card the last call named, before and after the call
CardBefore == expense.creditCards[FindCard(expense.creditCards, expense'.call.cardId)]

CardAfter == expense'.creditCards[FindCard(expense.creditCards, expense'.call.cardId)]

\* the month after the month of the date
FollowingMonth(date) ==
    IF date.month = 12 THEN [year |-> date.year + 1, month |-> 1]
    ELSE [year |-> date.year, month |-> date.month + 1]

\* a call that returned true lowered the balance by min(amount - interest,
\* balance) > 0 and kept it >= 0, and put one record in front
PaymentLowersBalance ==
    LET interest == calculateMonthlyInterest(CardBefore.balance, CardBefore.interestRate)
        paid     == RMin(RSub(expense'.call.amount, interest), CardBefore.balance)
    IN  /\ RLess(CardAfter.balance, CardBefore.balance)
        /\ CardAfter.balance = RSub(CardBefore.balance, paid)
        /\ RLeq(Zero, CardAfter.balance)
        /\ Len(CardAfter.paymentHistory) = Len(CardBefore.paymentHistory) + 1
        /\ Tail(CardAfter.paymentHistory) = CardBefore.paymentHistory
        /\ Head(CardAfter.paymentHistory).remainingBalance = CardAfter.balance

\* the due date is in the following month
DueDateNextMonth ==
    [year |-> CardAfter.dueDate.year, month |-> CardAfter.dueDate.month]
        = FollowingMonth(CardBefore.dueDate)

NoNegativeBalance ==
    \A k \in 1 .. Len(expense.creditCards) : RLeq(Zero, expense.creditCards[k].balance)

\* the step of a makePayment call that returned true
PaymentAccepted == expense' # expense /\ expense'.call.returned

\* C24: every makePayment call that returns true strictly lowers the card's
\* balance by min(amount - monthly interest, balance), keeps it >= 0,
\* prepends one payment record whose remainingBalance is the new balance and
\* moves dueDate forward by one month; no card balance is ever negative.
C24_PaymentLowersBalanceMovesDueDate ==
    /\ [][PaymentAccepted => (PaymentLowersBalance /\ DueDateNextMonth)]_vars
    /\ []NoNegativeBalance

\* C30: when the card id is unknown, amount <= 0, or amount does not exceed
\* the card's monthly interest, makePayment returns false and leaves the
\* balance, dueDate, totalInterestPaid and paymentHistory of every card as
\* they were.
C30_RefusedPaymentChangesNothing ==
    [][LET cardId == expense'.call.cardId
           amount == expense'.call.amount
           k      == FindCard(expense.creditCards, cardId)
       IN  (\/ k = 0
            \/ RLeq(amount, Zero)
            \/ RLeq(amount, calculateMonthlyInterest(expense.creditCards[k].balance,
                                                     expense.creditCards[k].interestRate)))
           => /\ ~expense'.call.returned
              /\ expense'.creditCards = expense.creditCards]_vars

\* C30 witness: a payment of exactly the month's interest, after an accepted
\* payment on the same card, was refused.
C30_Witness ==
    /\ expense.pc = "ready"
    /\ ~expense.call.returned
    /\ expense.call.cardId = 1
    /\ Len(expense.creditCards[1].paymentHistory) = 1
    /\ RLess(Zero, expense.call.amount)
    /\ expense.call.amount = calculateMonthlyInterest(expense.creditCards[1].balance,
                                                      expense.creditCards[1].interestRate)

(***************************************************************************)
(* Claims about the storage service, checked under SpecStorage.             *)
(***************************************************************************)
\* the backup is not JSON or has no object-valued data field
InvalidBackup(backupData) ==
    \/ backupData.json # "object"
    \/ backupData.data.type \notin {"array", "object"}

\* an importData call with an invalid backup returns false and leaves every
\* stored item as it was
InvalidImportChangesNothing ==
    (storage'.call.op = "importData" /\ InvalidBackup(storage'.call.data))
        => (~storage'.call.returned /\ storage'.items = storage.items)

\* a clear call removes only keys with the prefix: every other key is there
\* as before, with its text
ClearKeepsOtherKeys ==
    storage'.call.op = "clear"
        => \A key \in DOMAIN storage.items :
              key.prefix # storagePrefix
                  => (key \in DOMAIN storage'.items
                      /\ storage'.items[key] = storage.items[key])

\* C25: importData with invalid backup text (not JSON, or lacking an
\* object-valued data field) returns false and leaves every stored item
\* unchanged; clear removes only keys carrying the app prefix and leaves the
\* other localStorage keys untouched.
C25_InvalidImportAndClearKeepOthers ==
    [][InvalidImportChangesNothing /\ ClearKeepsOtherKeys]_vars

(***************************************************************************)
(* Claims about the mortgage store, checked under SpecMStore.               *)
(***************************************************************************)
\* the store called calculateMortgage only with loanAmount > 0 and
\* downPayment <= loanAmount
EngineCalledWithinInvariant ==
    mstore'.call.calledEngine
        => /\ RLess(Zero, mstore'.currentInputs.loanAmount)
           /\ RLeq(mstore'.currentInputs.downPayment, mstore'.currentInputs.loanAmount)

\* with inputs that fail the validation the results are null and
\* calculateMortgage is not called
InvalidInputsGiveNull ==
    ~isValidInputs(mstore'.currentInputs)
        => (mstore'.currentResults.isNull /\ ~mstore'.call.calledEngine)

PrincipalNotNegative ==
    ~mstore.currentResults.isNull => RLeq(Zero, mstore.currentResults.principal)

\* C26: whenever calculateResults/updateInputs invokes calculateMortgage,
\* loanAmount > 0 and downPayment <= loanAmount, so the stored
\* currentResults.principal is never negative; when validation fails
\* currentResults is set to null and calculateMortgage is not called.
C26_EngineCalledWithValidatedInputs ==
    /\ [][mstore' # mstore => (EngineCalledWithinInvariant /\ InvalidInputsGiveNull)]_vars
    /\ []PrincipalNotNegative

(***************************************************************************)
(* Progress of the payoff simulation, checked under SpecPayoff.             *)
(***************************************************************************)
\* the call passed both guards of calculatePayoffTime
PayoffGuardsPassed ==
    /\ RLess(Zero, payoff.balance)
    /\ RLess(calculateMonthlyInterest(payoff.balance, payoff.annualInterestRate),
             payoff.monthlyPayment)

\* an iteration of the loop lowers currentBalance
PayoffIterationLowersBalance ==
    (payoff.pc = "loop" /\ payoff'.months = payoff.months + 1)
        => RLess(payoff'.currentBalance, payoff.currentBalance)

\* fewer than 600 months returned after the guards: the balance is paid
PayoffEndsPaid ==
    (payoff.pc = "done" /\ PayoffGuardsPassed /\ RLess(payoff.result.months, RInt(MaxMonths)))
        => RLeq(payoff.currentBalance, Rat(1, 100))

\* C27: once calculatePayoffTime passes its guards, every loop iteration has
\* principalPayment > 0, so currentBalance strictly decreases each month, the
\* 'principalPayment <= 0' break is never taken, and a returned months value
\* below 600 means the simulated balance has reached <= 0.01.
C27_PayoffLoopProgress ==
    /\ [][PayoffIterationLowersBalance]_vars
    /\ [](payoff.pc # "break")
    /\ []PayoffEndsPaid

(***************************************************************************)
(* Budget conservation of calculateOptimalPaymentDistribution, checked      *)
(* under SpecDist.                                                          *)
(***************************************************************************)
\* C28: budget totalBudget - sum(payments) is left over only if the
\* priority card is paid in full (payment = balance) and every other card
\* received exactly min(minimumPayment, balance); the other cards never
\* receive more than their minimum, even when budget remains.
C28_LeftoverOnlyWhenPriorityPaidOff ==
    dist.pc = "done" =>
        /\ SumPayments(dist.payments) < dist.totalPaymentBudget =>
              \A k \in 1 .. Len(dist.payments) :
                  dist.payments[k].payment =
                      IF k = 1 THEN PaidCard(1).balance ELSE EffectiveMinimum(k)
        /\ \A k \in 2 .. Len(dist.payments) :
              dist.payments[k].payment <= PaidCard(k).minimumPayment

\* C28 witness: budget is left over, the priority card is paid off with more
\* than its minimum, and a second card that still owes received its minimum.
C28_Witness ==
    /\ dist.pc = "done"
    /\ SumPayments(dist.payments) < dist.totalPaymentBudget
    /\ Len(dist.payments) >= 2
    /\ dist.payments[1].payment = PaidCard(1).balance
    /\ dist.payments[1].payment > PaidCard(1).minimumPayment
    /\ dist.payments[2].payment = PaidCard(2).minimumPayment
    /\ dist.payments[2].payment < PaidCard(2).balance

(***************************************************************************)
(* Claims about the watchlist, checked under SpecWatch.                     *)
(***************************************************************************)
WatchlistSymbolsUnique ==
    \A i, j \in 1 .. Len(watch.watchlist) :
        watch.watchlist[i].symbol = watch.watchlist[j].symbol => i = j

\* the symbol, in whatever case it is written, is on the watchlist
OnWatchlist(symbol) ==
    \E k \in 1 .. Len(watch.watchlist) :
        watch.watchlist[k].symbol.letters = symbol.letters

\* addToWatchlist for a symbol on the watchlist returns false and leaves the
\* watchlist as it was
AddOfPresentSymbolRefused ==
    (watch'.call.op = "addToWatchlist" /\ OnWatchlist(watch'.call.symbol))
        => (~watch'.call.returned /\ watch'.watchlist = watch.watchlist)

\* C29: after any sequence of addToWatchlist and removeFromWatchlist calls,
\* with symbols in any letter case, no two watchlist items have the same
\* symbol; addToWatchlist for a symbol already present returns false and
\* leaves the watchlist unchanged.
C29_WatchlistSymbolsUnique ==
    /\ []WatchlistSymbolsUnique
    /\ [][watch' # watch => AddOfPresentSymbolRefused]_vars

====
